---- MODULE Spec2Model ----
(***************************************************************************)
(* A model of three components of ElectrsCash:                             *)
(*   - RndCache, the sized random-eviction cache     (src/src/rndcache.rs) *)
(*   - GlobalLimits, the connection limits           (src/src/doslimit.rs) *)
(*   - Tracker, the mempool tracker                  (src/src/mempool.rs)  *)
(* Each component has its own specification (SpecCache, SpecLimits,        *)
(* SpecMempool); the variables of the other components stay at their       *)
(* initial values.                                                         *)
(***************************************************************************)
EXTENDS Integers, Sequences, FiniteSets, TLC

VARIABLES
    \* RndCache
    map,              \* IndexMap<K,(u32,V)>: key -> (size, value)
    bytes_capacity,   \* u64
    bytes_used,       \* u64
    entry_overhead,   \* u32
    call,             \* the last cache call: its arguments and what it did
    \* GlobalLimits
    max_connections_total,          \* i32
    max_connections_shared_prefix,  \* u32
    total_connections,              \* AtomicI32
    total_prefixed_connections,     \* Mutex<HashMap<[u8; 2], u32>>: prefix -> count
    lock,             \* the thread holding the mutex of the prefix table, 0 when free
    pc,               \* per thread: where it is in inc_connection / dec_connection
    arg,              \* per thread: the address of its call
    open,             \* per address: connections admitted and not yet released
    snap,             \* the counters when the call holding the mutex took it
    solo,             \* the call in flight has run with no other call in flight
    hist,             \* the last calls that ran alone, oldest first (at most three)
    \* Tracker (mempool) and the node it follows
    items,            \* HashMap<Txid, Item>: txid -> [tx, entry]
    index,            \* MempoolStore::map: key -> stack of values
    histogram,        \* Vec<(f32, u32)>
    node_mempool,     \* the txids the node's mempool holds
    last,             \* the last update: what it was given and what it returned
    \* electrum_fees
    entries,          \* Vec<&MempoolEntry>: the entries of the tracked items
    fees,             \* the histogram computed from them
    \* Query: the confirmed store and what the last queries returned
    indexed,          \* the number of blocks of the chain the index holds
    status,           \* the result of the last Query::status, and its argument
    firstuse,         \* the result of the last get_first_use, and its argument
    \* Rpc: one connection, its channel, and the notifier
    chan,             \* sync_channel(rpc_buffer_size): the messages queued
    nread,            \* the number of request lines parse_requests has read
    reader,           \* parse_requests: "reading" or "done"
    conn,             \* handle_replies: "open" while it runs, else "closed"
    out,              \* the values written to the stream, oldest first
    subscriptions,    \* HashMap<FullHash, Subscription>: scripthash -> statushash
    last_header_entry, \* Option<HeaderEntry>
    nodestatus,       \* per scripthash: the status hash Query::status gives now
    nchanges,         \* the number of status and chain tip changes so far
    tip,              \* the height of the best header
    senders,          \* the connection's sender is in the notifier's list
    handled,          \* the message handle_replies handled last
    \* Index: the node's chain, the store, the in-memory header list
    best,             \* the node's best block hash
    db,               \* the store: key -> value, of every key the value put last
    headers,          \* HeaderList: the hashes of the indexed chain, by height
    upd,              \* Index::update: its position, tip, new_headers, blocks written
    ilast,            \* what the indexer did last
    \* Subscription limits of one connection
    subs,             \* BlockchainRpc.subscriptions of a connection: scripthash -> alias length, 0 for None
    alias_bytes_used, \* AtomicUsize
    climits,          \* ConnectionLimits: max_subscriptions, max_alias_bytes
    sublast,          \* the last subscribe or unsubscribe call and its result
    \* Shutdown of the server, and the socket of the connection
    server,           \* the rpc thread of Rpc::start: running, closing, joining or stopped
    sock,             \* the values written to the stream that the client has not read
    \* run_server: the main loop and the signals
    sigq,             \* the signals caught and not yet received by a Waiter, oldest first
    mainpc,           \* run_server: in the update, in the wait, or returned
    rpcserver,        \* server: Option<Rpc>: none, running or dropped
    ticks,            \* the number of turns of the loop begun
    wlast,            \* the outcome of the last Waiter::wait of the loop
    \* Rpc::start
    peer,             \* Rpc::start: the connections accepted, each with its peer thread
    acceptor,         \* the acceptor's channel: accepting, or closed (it yielded None)
    \* MempoolStore::add and remove
    probe,            \* MempoolStore: the last add of transactions followed by their removal
    \* the two RwLocks and the threads that take them
    tracker_lock,     \* Query.tracker, an RwLock: its writer and its readers
    headers_lock,     \* Index.headers, an RwLock: its writer and its readers
    mainthread,       \* the main thread inside Index::update and Query::update_mempool
    querythread       \* the peer threads inside Query::status

cacheVars == <<map, bytes_capacity, bytes_used, entry_overhead, call>>

limitsVars == <<max_connections_total, max_connections_shared_prefix,
                total_connections, total_prefixed_connections, lock, pc, arg,
                open, snap, solo, hist>>

mempoolVars == <<items, index, histogram, node_mempool, last>>

feesVars == <<entries, fees>>

queryVars == <<indexed, status, firstuse>>

rpcVars == <<chan, nread, reader, conn, out, subscriptions, last_header_entry,
             nodestatus, nchanges, tip, senders, handled>>

indexVars == <<best, db, headers, upd, ilast>>

subsVars == <<subs, alias_bytes_used, climits, sublast>>

shutVars == <<server, sock>>

loopVars == <<sigq, mainpc, rpcserver, ticks, wlast>>

peersVars == <<peer, acceptor>>

storeVars == <<probe>>

locksVars == <<tracker_lock, headers_lock, mainthread, querythread>>

outsideCache == <<limitsVars, mempoolVars, feesVars, queryVars, rpcVars, indexVars, subsVars, shutVars, loopVars, peersVars, storeVars, locksVars>>
outsideLimits == <<cacheVars, mempoolVars, feesVars, queryVars, rpcVars, indexVars, subsVars, shutVars, loopVars, peersVars, storeVars, locksVars>>
outsideMempool == <<cacheVars, limitsVars, feesVars, queryVars, rpcVars, indexVars, subsVars, shutVars, loopVars, peersVars, storeVars, locksVars>>
outsideFees == <<cacheVars, limitsVars, mempoolVars, queryVars, rpcVars, indexVars, subsVars, shutVars, loopVars, peersVars, storeVars, locksVars>>
outsideQuery == <<cacheVars, limitsVars, mempoolVars, feesVars, rpcVars, indexVars, subsVars, shutVars, loopVars, peersVars, storeVars, locksVars>>
outsideRpc == <<cacheVars, limitsVars, mempoolVars, feesVars, queryVars, indexVars, subsVars, shutVars, loopVars, peersVars, storeVars, locksVars>>
outsideIndex == <<cacheVars, limitsVars, mempoolVars, feesVars, queryVars, rpcVars, subsVars, shutVars, loopVars, peersVars, storeVars, locksVars>>
outsideSubs == <<cacheVars, limitsVars, mempoolVars, feesVars, queryVars, rpcVars, indexVars, shutVars, loopVars, peersVars, storeVars, locksVars>>
outsideShut == <<cacheVars, limitsVars, mempoolVars, feesVars, queryVars, rpcVars, indexVars, subsVars, loopVars, peersVars, storeVars, locksVars>>
outsideConnection == <<cacheVars, limitsVars, mempoolVars, feesVars, queryVars, indexVars, subsVars, loopVars, peersVars, storeVars, locksVars>>
outsideLoop == <<cacheVars, limitsVars, mempoolVars, feesVars, queryVars, rpcVars, indexVars, subsVars, shutVars, peersVars, storeVars, locksVars>>
outsidePeers == <<cacheVars, limitsVars, mempoolVars, feesVars, queryVars, rpcVars, indexVars, subsVars, shutVars, loopVars, storeVars, locksVars>>
\* everything but limitsVars and peersVars
outsideAccept == <<cacheVars, mempoolVars, feesVars, queryVars, rpcVars, indexVars, subsVars, shutVars, loopVars, storeVars, locksVars>>
outsideStore == <<cacheVars, limitsVars, mempoolVars, feesVars, queryVars, rpcVars, indexVars, subsVars, shutVars, loopVars, peersVars, locksVars>>
\* everything but mempoolVars and storeVars
outsideTracker == <<cacheVars, limitsVars, feesVars, queryVars, rpcVars, indexVars, subsVars, shutVars, loopVars, peersVars, locksVars>>
outsideLocks == <<cacheVars, limitsVars, mempoolVars, feesVars, queryVars, rpcVars, indexVars, subsVars, shutVars, loopVars, peersVars, storeVars>>

vars == <<map, bytes_capacity, bytes_used, entry_overhead, call,
          max_connections_total, max_connections_shared_prefix,
          total_connections, total_prefixed_connections, lock, pc, arg,
          open, snap, solo, hist,
          items, index, histogram, node_mempool, last,
          entries, fees,
          indexed, status, firstuse,
          chan, nread, reader, conn, out, subscriptions, last_header_entry,
          nodestatus, nchanges, tip, senders, handled,
          best, db, headers, upd, ilast,
          subs, alias_bytes_used, climits, sublast,
          server, sock,
          sigq, mainpc, rpcserver, ticks, wlast,
          peer, acceptor,
          probe,
          tracker_lock, headers_lock, mainthread, querythread>>

(***************************************************************************)
(* Bounds of the model                                                     *)
(***************************************************************************)
NumKeys == 2
MaxSize == 3
SmallCapacity == 2
MaxOverhead == 1
NumThreads == 2
MaxTotal == 2
MaxSharedPrefix == 1
NumTxs == 3
MaxEntries == 3
PrefixSpace == 8
BufferSize == 2
MaxRequests == 2
MaxChanges == 2
MaxBlocks == 3
BatchSize == 2
NumScriptHashes == 3
MaxSubscriptions == 2
MaxAliasBytes == 4
SocketBuffer == 1
MaxSignals == 2
MaxTicks == 3
NumPeers == 3

(***************************************************************************)
(* RndCache                                                                *)
(***************************************************************************)
\* std::u32::MAX.  TLC's integers are 32-bit signed, so the u32 of the program
\* is modelled 8 bits wide; bytes_capacity and bytes_used (u64) stay unbounded,
\* they never come near 2^64 here.
U32Max == 255
U32Mod == U32Max + 1

\* size_of::<usize>() + size_of::<u32>() + size_of::<u32>() on a 64-bit target
DefaultEntryOverhead == 16

Keys == 1..NumKeys
Values == {"a", "b"}

\* capacities a cache is constructed with: one that a few entries overflow, and
\* one above u32::MAX (bytes_capacity is a u64)
HugeCapacity == U32Max + SmallCapacity
Capacities == {SmallCapacity, HugeCapacity}

\* sizes passed to put: small ones around SmallCapacity, and u32::MAX
Sizes == (0..MaxSize) \cup {U32Max}

Overheads == 0..MaxOverhead

\* Option::None, and a key's slot when the map does not hold the key
None == "None"
Absent == [size |-> 0, v |-> None]

\* existed: the map held the key when the call began
NoCall == [op |-> "none", k |-> 0, v |-> None, size |-> 0, evicted |-> 0,
           existed |-> FALSE]

\* The IndexMap is modelled as a function from every key to its (size, value)
\* or to Absent.  The insertion order the IndexMap keeps is read only by
\* evict_random, which draws an index over all positions, so the order is not
\* part of the state.
Present(m) == {k \in Keys : m[k] # Absent}

ChargeSizeOnly(entry_size) == entry_size % U32Mod

\* (entry_size + self.entry_overhead) as u64, the sum taken in u32
Charge(entry_size) == (entry_size + entry_overhead) % U32Mod

\* fits_in_cache, at a moment when bytes_used is `used`
fits_in_cache(used, bytes) == used + bytes <= bytes_capacity

\* The outcomes of `while !self.fits_in_cache(size) { self.evict_random(); }`:
\* every draw of the random index is one outcome.  evict_random on an empty
\* map panics (gen_range(0, 0)); that outcome is recorded as panicked.
RECURSIVE EvictLoop(_, _, _)
EvictLoop(m, used, size) ==
    IF fits_in_cache(used, size)
    THEN {[map |-> m, used |-> used, evicted |-> 0, panicked |-> FALSE]}
    ELSE IF Present(m) = {}
    THEN {[map |-> m, used |-> used, evicted |-> 0, panicked |-> TRUE]}
    ELSE UNION { { [r EXCEPT !.evicted = r.evicted + 1] :
                     r \in EvictLoop([m EXCEPT ![k] = Absent],
                                     used - Charge(m[k].size), size) } :
                 k \in Present(m) }

\* the first early return of put
TooBigNever(size) == FALSE
TooBig(size) == size > bytes_capacity

\* the second early return of put
Unsupported(size) == size + entry_overhead > U32Max

\* RndCache::get
get(k) == map[k].v

\* bytes_used after insert, dec_bytes_used(old_size) when the key existed, and
\* inc_bytes_used(size)
UsedAfterInsertNoDec(m, used, k, size) == used + Charge(size)
UsedAfterInsert(m, used, k, size) ==
    IF m[k] # Absent
    THEN used - Charge(m[k].size) + Charge(size)
    ELSE used + Charge(size)

(***************************************************************************)
(* GlobalLimits                                                            *)
(***************************************************************************)
Threads == 1..NumThreads

\* Two addresses that share their first two octets, an IPv4 and an IPv6 one,
\* and an IPv4 address of another prefix.  An address is [v, octets].
Addr1 == [v |-> 4, octets |-> <<1, 2, 0, 4>>]
Addr2 == [v |-> 6, octets |-> <<1, 2, 0, 1, 0, 0, 0, 0, 0, 0, 0, 0, 0, 0, 0, 0>>]
Addr3 == [v |-> 4, octets |-> <<1, 3, 0, 4>>]
Addrs == {Addr1, Addr2, Addr3}
NoAddr == [v |-> 0, octets |-> << >>]

get_prefix(addr) == SubSeq(addr.octets, 1, 2)

Prefixes == {get_prefix(a) : a \in Addrs}

\* `as i32`, the i32 modelled 8 bits wide like the u32
AsI32(n) == IF n > (U32Max - 1) \div 2 THEN n - U32Mod ELSE n

\* the values GlobalLimits::new is given for max_connections_total: a small
\* limit, no connection at all, and one above i32::MAX
TotalLimits == {0, MaxTotal, U32Max}
PrefixLimits == {0, MaxSharedPrefix, MaxSharedPrefix + 1}

\* the count of a prefix; a prefix the table has no entry for counts 0
PrefixCount(table, p) == IF p \in DOMAIN table THEN table[p] ELSE 0

\* prefix_table.entry(prefix): the entry, inserted with 0 when vacant
Entry(table, p) == IF p \in DOMAIN table THEN table ELSE table @@ (p :> 0)

\* connection_limits().0: max_connections_total as u32, the limit as configured
AsU32(n) == (n + U32Mod) % U32Mod

NoSnap == [total |-> 0, table |-> << >>]

\* ---- the record of the calls that ran alone (not program state) ----
OthersIdle(t) == \A u \in Threads \ {t} : pc[u] = "idle"

\* a call begins
Begin(t) ==
    /\ solo' = OthersIdle(t)
    /\ hist' = IF OthersIdle(t) THEN hist ELSE << >>

\* a call returns res, having been given the address a
Return(t, op, a, res) ==
    /\ solo' = FALSE
    /\ hist' = IF solo
               THEN (IF Len(hist) > 2 THEN Tail(hist) ELSE hist)
                       \o <<[op |-> op, a |-> a, res |-> res,
                             total |-> snap.total,
                             count |-> PrefixCount(snap.table, get_prefix(a))]>>
               ELSE << >>

\* ---- the mutex of the prefix table ----
LockFreeAlways == TRUE
LockFree == lock = 0

\* ---- inc_connection ----
\* the call begins (connections_total.inc() is a metric, not modelled)
inc_call(t, a) ==
    /\ pc[t] = "idle"
    /\ pc' = [pc EXCEPT ![t] = "inc_lock"]
    /\ arg' = [arg EXCEPT ![t] = a]
    /\ Begin(t)
    /\ UNCHANGED <<max_connections_total, max_connections_shared_prefix,
                   total_connections, total_prefixed_connections, lock, open, snap>>

\* self.total_prefixed_connections.lock().unwrap() and prefix_table.entry(..)
inc_lock(t) ==
    /\ pc[t] = "inc_lock"
    /\ LockFree
    /\ lock' = t
    /\ snap' = [total |-> total_connections, table |-> total_prefixed_connections]
    /\ total_prefixed_connections' =
          Entry(total_prefixed_connections, get_prefix(arg[t]))
    /\ pc' = [pc EXCEPT ![t] = "inc_prefix"]
    /\ UNCHANGED <<max_connections_total, max_connections_shared_prefix,
                   total_connections, arg, open, solo, hist>>

\* if *prefix_count >= self.max_connections_shared_prefix { bail!(..) }
PrefixFullNever(t) == FALSE
PrefixFull(t) ==
    total_prefixed_connections[get_prefix(arg[t])] >= max_connections_shared_prefix

inc_prefix_reject(t) ==
    /\ pc[t] = "inc_prefix"
    /\ PrefixFull(t)
    /\ lock' = 0
    /\ snap' = NoSnap
    /\ pc' = [pc EXCEPT ![t] = "idle"]
    /\ arg' = [arg EXCEPT ![t] = NoAddr]
    /\ Return(t, "inc", arg[t], "err_prefix")
    /\ UNCHANGED <<max_connections_total, max_connections_shared_prefix,
                   total_connections, total_prefixed_connections, open>>

inc_prefix_pass(t) ==
    /\ pc[t] = "inc_prefix"
    /\ ~PrefixFull(t)
    /\ pc' = [pc EXCEPT ![t] = "inc_total"]
    /\ UNCHANGED <<max_connections_total, max_connections_shared_prefix,
                   total_connections, total_prefixed_connections, lock, arg,
                   open, snap, solo, hist>>

\* self.total_connections.fetch_update(.., |current| if current < max { Some(current + 1) } ..)
TotalFullNever == FALSE
TotalFull == ~(total_connections < max_connections_total)

inc_total_reject(t) ==
    /\ pc[t] = "inc_total"
    /\ TotalFull
    /\ lock' = 0
    /\ snap' = NoSnap
    /\ pc' = [pc EXCEPT ![t] = "idle"]
    /\ arg' = [arg EXCEPT ![t] = NoAddr]
    /\ Return(t, "inc", arg[t], "err_global")
    /\ UNCHANGED <<max_connections_total, max_connections_shared_prefix,
                   total_connections, total_prefixed_connections, open>>

inc_total_pass(t) ==
    /\ pc[t] = "inc_total"
    /\ ~TotalFull
    /\ total_connections' = total_connections + 1
    /\ pc' = [pc EXCEPT ![t] = "inc_bump"]
    /\ UNCHANGED <<max_connections_total, max_connections_shared_prefix,
                   total_prefixed_connections, lock, arg, open, snap, solo, hist>>

\* *prefix_count += 1; Ok(..): the connection is admitted
inc_bump(t) ==
    /\ pc[t] = "inc_bump"
    /\ total_prefixed_connections' =
          [total_prefixed_connections EXCEPT ![get_prefix(arg[t])] = (@ + 1) % U32Mod]
    /\ open' = [open EXCEPT ![arg[t]] = @ + 1]
    /\ lock' = 0
    /\ snap' = NoSnap
    /\ pc' = [pc EXCEPT ![t] = "idle"]
    /\ arg' = [arg EXCEPT ![t] = NoAddr]
    /\ Return(t, "inc", arg[t], "ok")
    /\ UNCHANGED <<max_connections_total, max_connections_shared_prefix,
                   total_connections>>

\* ---- dec_connection ----
\* the peer thread of an admitted connection has ended and releases it
dec_call(t, a) ==
    /\ pc[t] = "idle"
    /\ open[a] > 0
    /\ open' = [open EXCEPT ![a] = @ - 1]
    /\ pc' = [pc EXCEPT ![t] = "dec_lock"]
    /\ arg' = [arg EXCEPT ![t] = a]
    /\ Begin(t)
    /\ UNCHANGED <<max_connections_total, max_connections_shared_prefix,
                   total_connections, total_prefixed_connections, lock, snap>>

\* lock().unwrap() and prefix_table.get_mut(..): Some(count) => *count -= 1
\* (a u32: at 0 it wraps in a release build), None => warn!(..)
DecPrefixNot(table, p) == table
DecPrefix(table, p) ==
    IF p \in DOMAIN table
    THEN [table EXCEPT ![p] = (@ - 1) % U32Mod]
    ELSE table

dec_lock(t) ==
    /\ pc[t] = "dec_lock"
    /\ LockFree
    /\ lock' = t
    /\ snap' = [total |-> total_connections, table |-> total_prefixed_connections]
    /\ total_prefixed_connections' =
          DecPrefix(total_prefixed_connections, get_prefix(arg[t]))
    /\ pc' = [pc EXCEPT ![t] = "dec_total"]
    /\ UNCHANGED <<max_connections_total, max_connections_shared_prefix,
                   total_connections, arg, open, solo, hist>>

\* fetch_update(.., |current| if current <= 0 { None } else { Some(current - 1) })
dec_total(t) ==
    /\ pc[t] = "dec_total"
    /\ IF total_connections <= 0
       THEN /\ Return(t, "dec", arg[t], "err_zero")
            /\ UNCHANGED total_connections
       ELSE /\ Return(t, "dec", arg[t], "ok")
            /\ total_connections' = total_connections - 1
    /\ lock' = 0
    /\ snap' = NoSnap
    /\ pc' = [pc EXCEPT ![t] = "idle"]
    /\ arg' = [arg EXCEPT ![t] = NoAddr]
    /\ UNCHANGED <<max_connections_total, max_connections_shared_prefix,
                   total_prefixed_connections, open>>

RECURSIVE SumOpen(_)
\* the number of admitted connections among the addresses as
SumOpen(as) ==
    IF as = {} THEN 0
    ELSE LET a == CHOOSE x \in as : TRUE
         IN open[a] + SumOpen(as \ {a})

\* dec_connection is public and takes any address: a call for an address that
\* has no admitted connection.  The calls are made while the total still is
\* the number of admitted connections and no count has wrapped, which bounds
\* the counts the calls can produce.
dec_call_unopened(t, a) ==
    /\ pc[t] = "idle"
    /\ open[a] = 0
    /\ total_connections = SumOpen(Addrs)
    /\ \A p \in DOMAIN total_prefixed_connections :
          total_prefixed_connections[p] <= max_connections_shared_prefix
    /\ pc' = [pc EXCEPT ![t] = "dec_lock"]
    /\ arg' = [arg EXCEPT ![t] = a]
    /\ Begin(t)
    /\ UNCHANGED <<max_connections_total, max_connections_shared_prefix,
                   total_connections, total_prefixed_connections, lock, open, snap>>

IncCall == (\E t \in Threads, a \in Addrs : inc_call(t, a)) /\ UNCHANGED outsideLimits
IncLock == (\E t \in Threads : inc_lock(t)) /\ UNCHANGED outsideLimits
IncPrefixReject == (\E t \in Threads : inc_prefix_reject(t)) /\ UNCHANGED outsideLimits
IncPrefixPass == (\E t \in Threads : inc_prefix_pass(t)) /\ UNCHANGED outsideLimits
IncTotalReject == (\E t \in Threads : inc_total_reject(t)) /\ UNCHANGED outsideLimits
IncTotalPass == (\E t \in Threads : inc_total_pass(t)) /\ UNCHANGED outsideLimits
IncBump == (\E t \in Threads : inc_bump(t)) /\ UNCHANGED outsideLimits
DecCall == (\E t \in Threads, a \in Addrs : dec_call(t, a)) /\ UNCHANGED outsideLimits
DecLock == (\E t \in Threads : dec_lock(t)) /\ UNCHANGED outsideLimits
DecTotal == (\E t \in Threads : dec_total(t)) /\ UNCHANGED outsideLimits

NextLimits ==
    \/ IncCall \/ IncLock \/ IncPrefixReject \/ IncPrefixPass
    \/ IncTotalReject \/ IncTotalPass \/ IncBump
    \/ DecCall \/ DecLock \/ DecTotal

DecCallUnopened ==
    (\E t \in Threads, a \in Addrs : dec_call_unopened(t, a)) /\ UNCHANGED outsideLimits

\* every call the interface of GlobalLimits allows, the calls made one after
\* the other by the first thread
OneCaller(A) == A /\ \A u \in Threads \ {1} : pc'[u] = "idle"

NextLimitsAnyCall ==
    \/ OneCaller(IncCall) \/ OneCaller(IncLock)
    \/ OneCaller(IncPrefixReject) \/ OneCaller(IncPrefixPass)
    \/ OneCaller(IncTotalReject) \/ OneCaller(IncTotalPass)
    \/ OneCaller(IncBump)
    \/ OneCaller(DecCall) \/ OneCaller(DecLock) \/ OneCaller(DecTotal)
    \/ OneCaller(DecCallUnopened)

(***************************************************************************)
(* GlobalLimits: claims                                                    *)
(***************************************************************************)
OpenOfPrefix(p) == SumOpen({a \in Addrs : get_prefix(a) = p})

AllIdle == \A t \in Threads : pc[t] = "idle"

\* C5: an inc_connection that finds (when it takes the mutex) the count of the
\* address's prefix at max_shared_prefix or the total at max_total does not
\* admit the connection, and an inc_connection that is rejected leaves the
\* total and the count of every prefix as they were when it took the mutex.
C5_RejectedAtLimit ==
    [][\A t \in Threads :
          /\ inc_bump(t) =>
                /\ PrefixCount(snap.table, get_prefix(arg[t]))
                      < max_connections_shared_prefix
                /\ snap.total < max_connections_total
          /\ (inc_prefix_reject(t) \/ inc_total_reject(t)) =>
                /\ total_connections' = snap.total
                /\ \A p \in Prefixes :
                      PrefixCount(total_prefixed_connections', p)
                         = PrefixCount(snap.table, p)]_vars

\* C5 witness: the last two calls were rejected, one at the prefix limit and
\* one at the total limit, with connections open and the counters as before.
C5_Witness ==
    /\ AllIdle
    /\ Len(hist) = 3
    /\ hist[2].op = "inc" /\ hist[2].res = "err_prefix"
    /\ hist[2].count >= max_connections_shared_prefix
    /\ hist[3].op = "inc" /\ hist[3].res = "err_global"
    /\ hist[3].total >= max_connections_total
    /\ max_connections_shared_prefix > 0
    /\ max_connections_total > 0
    /\ total_connections = hist[2].total
    /\ PrefixCount(total_prefixed_connections, get_prefix(hist[2].a)) = hist[2].count

\* C6: in every state of every interleaving, the admitted connections are at
\* most max_total and those of one prefix at most max_shared_prefix, and so are
\* the counters themselves.
C6_LimitsNeverExceeded ==
    /\ SumOpen(Addrs) <= AsU32(max_connections_total)
    /\ total_connections <= AsU32(max_connections_total)
    /\ \A p \in Prefixes :
          /\ OpenOfPrefix(p) <= max_connections_shared_prefix
          /\ PrefixCount(total_prefixed_connections, p)
                <= max_connections_shared_prefix

\* C6 witness: both counters are at their limit while one thread is inside
\* inc_connection holding the mutex and another waits for it in dec_connection.
C6_Witness ==
    /\ \E t \in Threads, u \in Threads :
          /\ pc[t] = "inc_total" /\ lock = t
          /\ pc[u] = "dec_lock"
    /\ total_connections = max_connections_total
    /\ \E p \in Prefixes :
          PrefixCount(total_prefixed_connections, p) = max_connections_shared_prefix
    /\ max_connections_shared_prefix > 0

\* C7: when dec_connection(a) directly follows a successful inc_connection(a),
\* it succeeds and the total and the count of a's prefix are what they were
\* before the inc_connection; and when an inc_connection was rejected and a
\* connection of that prefix is then released, the next inc_connection for the
\* prefix is admitted.
C7_DecUndoesInc ==
    /\ \A i \in 1..(Len(hist) - 1) :
          (/\ hist[i].op = "inc" /\ hist[i].res = "ok"
           /\ hist[i + 1].op = "dec" /\ hist[i + 1].a = hist[i].a)
             => /\ hist[i + 1].res = "ok"
                /\ (i + 1 = Len(hist) /\ AllIdle)
                      => /\ total_connections = hist[i].total
                         /\ PrefixCount(total_prefixed_connections,
                                        get_prefix(hist[i].a)) = hist[i].count
    /\ (/\ Len(hist) = 3
        /\ hist[1].op = "inc" /\ hist[1].res \in {"err_prefix", "err_global"}
        /\ hist[2].op = "dec" /\ hist[2].res = "ok"
        /\ hist[3].op = "inc"
        /\ get_prefix(hist[2].a) = get_prefix(hist[1].a)
        /\ get_prefix(hist[3].a) = get_prefix(hist[1].a))
          => hist[3].res = "ok"

\* C7 witness: a connection was rejected at the prefix limit, another address
\* of the prefix was released, and the rejected address was then admitted.
C7_Witness ==
    /\ Len(hist) = 3
    /\ hist[1].op = "inc" /\ hist[1].res = "err_prefix"
    /\ hist[2].op = "dec" /\ hist[2].res = "ok"
    /\ hist[2].a # hist[1].a
    /\ get_prefix(hist[2].a) = get_prefix(hist[1].a)
    /\ hist[3].op = "inc" /\ hist[3].res = "ok" /\ hist[3].a = hist[1].a
    /\ AllIdle

RECURSIVE SumCounts(_, _)
\* the sum of the counts the table holds for the prefixes ps
SumCounts(table, ps) ==
    IF ps = {} THEN 0
    ELSE LET p == CHOOSE x \in ps : TRUE
         IN table[p] + SumCounts(table, ps \ {p})

\* C35: after any sequence of inc_connection and dec_connection calls, those
\* of dec_connection for an address without an open connection and at a total
\* of zero included, the total is the sum of the counts of the prefixes, and no
\* counter is negative or has wrapped (a count is never above the total).
C35_TotalIsSumOfPrefixes ==
    AllIdle =>
       /\ total_connections =
             SumCounts(total_prefixed_connections, DOMAIN total_prefixed_connections)
       /\ total_connections >= 0
       /\ \A p \in DOMAIN total_prefixed_connections :
             /\ total_prefixed_connections[p] >= 0
             /\ total_prefixed_connections[p] <= total_connections

(***************************************************************************)
(* Tracker: the mempool tracker, and the node's mempool it follows         *)
(***************************************************************************)
MEMPOOL_HEIGHT == 2147483647
VSIZE_BIN_WIDTH == 100000

Txids == 1..NumTxs

\* the txid of a confirmed transaction, whose outputs mempool transactions spend
ConfirmedTxid == NumTxs + 1

\* Txid::default(), the previous txid of a coinbase input
NullHash == 0

\* The transaction of a txid (a txid is the hash of its transaction): one input
\* and one output.  An odd txid spends an output of the confirmed transaction,
\* an even one spends output 0 of the mempool transaction before it.  The
\* txid t + PrefixSpace is that of a transaction like the one of t in another
\* family of transactions: it has the hash prefix of t, pays the same value
\* to the same script at the same position, and spends the same position of
\* a transaction whose txid has the prefix of the one t spends.
TxOf(t) ==
    LET b == t % PrefixSpace
        family == t - b
    IN [txid |-> t,
        input |-> <<IF b % 2 = 1
                    THEN [txid |-> ConfirmedTxid + family, vout |-> b]
                    ELSE [txid |-> b - 1 + family, vout |-> 0]>>,
        output |-> <<[script_hash |-> b % 2, value |-> b]>>]

\* The node's mempool entry of a txid: fee and vsize (MempoolEntry::new(fee, vsize)).
\* The fees are whole multiples of the vsizes, so fee_per_vbyte is exact.
EntryOf(t) == [fee |-> (1 + t) * (50000 + 10000 * t), vsize |-> 50000 + 10000 * t]

fee_per_vbyte(e) == e.fee \div e.vsize

ItemOf(t) == [tx |-> TxOf(t), entry |-> EntryOf(t)]

\* hash_prefix: the first HASH_PREFIX_LEN bytes of a hash; in the model the
\* hash modulo PrefixSpace, so that different hashes can share a prefix
hash_prefix(h) == h % PrefixSpace

TxInRowsOfAll(tx) ==
    [i \in 1..Len(tx.input) |->
        [key |-> <<"I", hash_prefix(tx.input[i].txid), tx.input[i].vout,
                   hash_prefix(tx.txid)>>,
         value |-> << >>]]

\* index_transaction(tx, height, None): the I rows of the inputs that are not
\* coinbase inputs, the O rows of the outputs, the T row
TxInRows(tx) ==
    LET InRow(i) == [key |-> <<"I", hash_prefix(tx.input[i].txid), tx.input[i].vout,
                               hash_prefix(tx.txid)>>,
                     value |-> << >>]
        RECURSIVE From(_)
        From(i) == IF i > Len(tx.input) THEN << >>
                   ELSE IF tx.input[i].txid = NullHash THEN From(i + 1)
                   ELSE <<InRow(i)>> \o From(i + 1)
    IN From(1)

TxOutRows(tx) ==
    [i \in 1..Len(tx.output) |->
        [key |-> <<"O", hash_prefix(tx.output[i].script_hash), hash_prefix(tx.txid),
                   i - 1, tx.output[i].value>>,
         value |-> << >>]]

index_transaction(tx, height) ==
    TxInRows(tx) \o TxOutRows(tx) \o <<[key |-> <<"T", tx.txid>>, value |-> <<height>>]>>

RECURSIVE PushRowsOnce(_, _)
PushRowsOnce(m, rows) ==
    IF rows = << >> THEN m
    ELSE LET r == Head(rows)
             m1 == IF r.key \in DOMAIN m THEN m ELSE m @@ (r.key :> <<r.value>>)
         IN PushRowsOnce(m1, Tail(rows))

\* MempoolStore::add: push the value of every row on the stack of its key
RECURSIVE PushRows(_, _)
PushRows(m, rows) ==
    IF rows = << >> THEN m
    ELSE LET r == Head(rows)
             m1 == IF r.key \in DOMAIN m
                   THEN [m EXCEPT ![r.key] = Append(@, r.value)]
                   ELSE m @@ (r.key :> <<r.value>>)
         IN PushRows(m1, Tail(rows))

StoreAdd(m, tx) == PushRows(m, index_transaction(tx, MEMPOOL_HEIGHT))

RECURSIVE PopRowsKeepingKeys(_, _)
PopRowsKeepingKeys(m, rows) ==
    IF rows = << >> THEN [map |-> m, panicked |-> FALSE]
    ELSE LET r == Head(rows)
         IN IF r.key \notin DOMAIN m THEN [map |-> m, panicked |-> TRUE]
            ELSE IF m[r.key] = << >> THEN [map |-> m, panicked |-> TRUE]
            ELSE IF m[r.key][Len(m[r.key])] # r.value THEN [map |-> m, panicked |-> TRUE]
            ELSE PopRowsKeepingKeys(
                    [m EXCEPT ![r.key] = SubSeq(@, 1, Len(@) - 1)], Tail(rows))

\* MempoolStore::remove: pop the value of every row off the stack of its key,
\* and drop the key when its stack is empty.  A missing key, or a popped value
\* other than the row's, panics.  The result is [map, panicked].
RECURSIVE PopRows(_, _)
PopRows(m, rows) ==
    IF rows = << >> THEN [map |-> m, panicked |-> FALSE]
    ELSE LET r == Head(rows)
         IN IF r.key \notin DOMAIN m THEN [map |-> m, panicked |-> TRUE]
            ELSE IF m[r.key][Len(m[r.key])] # r.value THEN [map |-> m, panicked |-> TRUE]
            ELSE LET rest == SubSeq(m[r.key], 1, Len(m[r.key]) - 1)
                     m1 == IF rest = << >>
                           THEN [k \in DOMAIN m \ {r.key} |-> m[k]]
                           ELSE [m EXCEPT ![r.key] = rest]
                 IN PopRows(m1, Tail(rows))

StoreRemove(m, tx) == PopRows(m, index_transaction(tx, MEMPOOL_HEIGHT))

\* Tracker::add and Tracker::remove over a set of txids; st is
\* [items, index, panicked]
RECURSIVE AddAll(_, _)
AddAll(st, txids) ==
    IF txids = {} THEN st
    ELSE LET t == CHOOSE x \in txids : TRUE
         IN AddAll([items |-> (t :> ItemOf(t)) @@ st.items,
                    index |-> StoreAdd(st.index, TxOf(t)),
                    panicked |-> FALSE], txids \ {t})

RECURSIVE RemoveAll(_, _)
RemoveAll(st, txids) ==
    IF txids = {} \/ st.panicked THEN st
    ELSE LET t == CHOOSE x \in txids : TRUE
         IN IF t \notin DOMAIN st.items THEN [st EXCEPT !.panicked = TRUE]
            ELSE LET ix == StoreRemove(st.index, st.items[t].tx)
                 IN RemoveAll([items |-> [x \in DOMAIN st.items \ {t} |-> st.items[x]],
                               index |-> ix.map,
                               panicked |-> ix.panicked], txids \ {t})

\* update_fee_histogram and electrum_fees: the entries by descending fee rate,
\* a bin closed when it holds more than VSIZE_BIN_WIDTH and the rate changes
RECURSIVE Descending(_)
Descending(es) ==
    IF es = {} THEN << >>
    ELSE LET e == CHOOSE x \in es : \A y \in es : fee_per_vbyte(x) >= fee_per_vbyte(y)
         IN <<e>> \o Descending(es \ {e})

RECURSIVE BinsNoPartial(_, _, _)
BinsNoPartial(es, bin_size, last_fee_rate) ==
    IF es = << >> THEN << >>
    ELSE LET fee_rate == fee_per_vbyte(Head(es))
         IN IF bin_size > VSIZE_BIN_WIDTH /\ last_fee_rate # fee_rate
            THEN <<<<last_fee_rate, bin_size>>>>
                    \o BinsNoPartial(Tail(es), Head(es).vsize, fee_rate)
            ELSE BinsNoPartial(Tail(es), bin_size + Head(es).vsize, fee_rate)
RECURSIVE Bins(_, _, _)
Bins(es, bin_size, last_fee_rate) ==
    IF es = << >>
    THEN IF bin_size > 0 THEN <<<<last_fee_rate, bin_size>>>> ELSE << >>
    ELSE LET fee_rate == fee_per_vbyte(Head(es))
         IN IF bin_size > VSIZE_BIN_WIDTH /\ last_fee_rate # fee_rate
            THEN <<<<last_fee_rate, bin_size>>>>
                    \o Bins(Tail(es), Head(es).vsize, fee_rate)
            ELSE Bins(Tail(es), bin_size + Head(es).vsize, fee_rate)

electrum_fees(its) == Bins(Descending({its[t].entry : t \in DOMAIN its}), 0, 0)

\* the txids update adds: those new to the tracker whose entry and transaction
\* were both fetched
AddedNoDifference(old_txids, new_txids, entry_err, tx_err) ==
    new_txids \ (entry_err \cup tx_err)
Added(old_txids, new_txids, entry_err, tx_err) ==
    (new_txids \ old_txids) \ (entry_err \cup tx_err)

\* the txids update removes: those tracked that the node no longer reports
RemovedNone(old_txids, new_txids) == {}
Removed(old_txids, new_txids) == old_txids \ new_txids

\* changed_txs: every txid added and every txid removed
ChangedOnlyAdded(added, removed) == added
Changed(added, removed) == added \cup removed

NoLast == [op |-> "none", old |-> {}, new |-> {}, failed |-> {}, changed |-> {},
           again |-> FALSE]

\* the node's mempool changes: transactions arrive, are mined or replaced
NodeChange ==
    /\ \E s \in SUBSET Txids : s # node_mempool /\ node_mempool' = s
    /\ UNCHANGED <<items, index, histogram, last>>
    /\ UNCHANGED outsideMempool

\* Tracker::update when daemon.getmempooltxids() fails: Err, nothing is changed
update_fetch_err ==
    /\ last' = [NoLast EXCEPT !.op = "fetch_err", !.old = DOMAIN items]
    /\ UNCHANGED <<items, index, histogram, node_mempool>>

\* Tracker::update.  entry_err: the new txids whose getmempoolentry fails,
\* tx_err: those whose get_unconfirmed fails.
update(entry_err, tx_err) ==
    LET new_txids == node_mempool
        old_txids == DOMAIN items
        added == Added(old_txids, new_txids, entry_err, tx_err)
        removed == Removed(old_txids, new_txids)
        st1 == AddAll([items |-> items, index |-> index, panicked |-> FALSE], added)
        st2 == RemoveAll(st1, removed)
    IN /\ entry_err \subseteq new_txids \ old_txids
       /\ tx_err \subseteq (new_txids \ old_txids) \ entry_err
       /\ IF st2.panicked
          THEN /\ last' = [NoLast EXCEPT !.op = "panic"]
               /\ UNCHANGED <<items, index, histogram, node_mempool>>
          ELSE /\ items' = st2.items
               /\ index' = st2.index
               /\ histogram' = electrum_fees(st2.items)
               /\ last' = [op |-> "update", old |-> old_txids, new |-> new_txids,
                           failed |-> entry_err \cup tx_err,
                           changed |-> Changed(added, removed),
                           again |-> /\ last.op = "update"
                                     /\ last.new = new_txids
                                     /\ last.failed = {}]
               /\ UNCHANGED node_mempool

Update ==
    /\ \E entry_err \in SUBSET Txids, tx_err \in SUBSET Txids : update(entry_err, tx_err)
    /\ UNCHANGED outsideMempool

UpdateFetchErr == update_fetch_err /\ UNCHANGED outsideMempool

NextMempool == NodeChange \/ Update \/ UpdateFetchErr

(***************************************************************************)
(* Tracker: claims                                                         *)
(***************************************************************************)
SymDiff(a, b) == (a \ b) \cup (b \ a)

Tracked == DOMAIN items

\* C8 as claimed: an update that follows an update in which the node reported
\* the same txids leaves items and index unchanged and returns no changed txid.
C8_IdempotentAsClaimed ==
    [][(Update /\ last.op = "update" /\ last.new = node_mempool)
          => (items' = items /\ index' = index /\ last'.changed = {})]_vars

\* C8 amended: an update that follows an update in which the node reported the
\* same txids and no fetch of an entry or a transaction failed leaves items,
\* index (and the histogram) unchanged and returns no changed txid.
C8_IdempotentAfterCompleteUpdate ==
    [][(Update /\ last.op = "update" /\ last.new = node_mempool /\ last.failed = {})
          => /\ items' = items
             /\ index' = index
             /\ histogram' = histogram
             /\ last'.changed = {}]_vars

\* C8 witness: a second update ran against the txids the first one was given
\* and had tracked completely, and returned no changed txid.
C8_Witness ==
    /\ last.op = "update"
    /\ last.again
    /\ Cardinality(last.new) > 1
    /\ last.new = Tracked
    /\ last.changed = {}

\* C9 as claimed: after an update a txid is tracked exactly if the node
\* reported it in that update (it is tracked from the tick that first observes
\* it until the first tick that does not), and only an update changes items.
C9_LifetimeAsClaimed ==
    [][/\ Update => DOMAIN items' = node_mempool
       /\ items' # items => Update]_vars

\* C9 amended: after an update a txid is tracked exactly if the node reported
\* it in that update and it was tracked already or both its entry and its
\* transaction were fetched in that update; only an update changes items.
C9_LifetimeFromFirstFetch ==
    [][/\ Update =>
             \A x \in Txids :
                /\ x \in DOMAIN items' <=>
                      (x \in node_mempool /\ (x \in Tracked \/ x \notin last'.failed))
                /\ x \in DOMAIN items' => items'[x] = ItemOf(x)
       /\ items' # items => Update]_vars

\* C9 witness: one update skipped a reported txid whose fetch failed, began to
\* track another and dropped one the node no longer reported.
C9_Witness ==
    /\ last.op = "update"
    /\ last.failed # {}
    /\ (last.new \ last.old) \cap Tracked # {}
    /\ last.old \ last.new # {}
    /\ Tracked \cap (last.old \ last.new) = {}

\* C10 as claimed: the changed txids an update returns are the symmetric
\* difference of the txids tracked before it and the txids the node reported.
C10_ChangedAsClaimed ==
    last.op = "update" => last.changed = SymDiff(last.old, last.new)

\* C10 amended: the changed txids an update returns are the symmetric
\* difference of the txids tracked before it and the txids tracked after it,
\* that is the symmetric difference with the txids the node reported less the
\* reported txids whose fetch failed.
C10_ChangedIsTrackedDifference ==
    last.op = "update" =>
        /\ last.changed = SymDiff(last.old, Tracked)
        /\ last.changed = SymDiff(last.old, last.new) \ last.failed

\* C10 witness: an update returned both an added and a removed txid, and not
\* the reported txid whose fetch failed.
C10_Witness ==
    /\ last.op = "update"
    /\ last.changed \cap last.new # {}
    /\ last.changed \cap last.old # {}
    /\ last.failed # {}
    /\ last.failed \cap last.changed = {}
    /\ last.changed # SymDiff(last.old, last.new)

(***************************************************************************)
(* electrum_fees: the fee histogram of a vector of mempool entries         *)
(***************************************************************************)
\* MempoolEntry::new(fee, vsize)
MempoolEntry(fee, vsize) == [fee |-> fee, vsize |-> vsize]

\* the entries of test_fakestore
TestEntries ==
    <<MempoolEntry(1000, 1000), MempoolEntry(10000, 10000), MempoolEntry(50000, 50000),
      MempoolEntry(120000, 60000), MempoolEntry(210000, 70000),
      MempoolEntry(320000, 80000)>>

\* the entries the tracked items may hold: below, at and above the bin width,
\* several of them paying the same fee rate
EntryVsizes == {50000, VSIZE_BIN_WIDTH, VSIZE_BIN_WIDTH + 10000}
EntryRates == {1, 2}
FeeEntries == {MempoolEntry(r * v, v) : r \in EntryRates, v \in EntryVsizes}

EntryVecs ==
    UNION {[1..n -> FeeEntries] : n \in 0..MaxEntries} \cup {TestEntries}

NotComputed == [done |-> FALSE, histogram |-> << >>]

\* entries.sort_unstable_by(fee_per_vbyte): every ascending arrangement of es
\* (an unstable sort may leave equal elements in any order)
SortedByFeeRate(es) ==
    LET n == Len(es)
        Perms == {f \in [1..n -> 1..n] : \A i, j \in 1..n : i # j => f[i] # f[j]}
    IN {[i \in 1..n |-> es[f[i]]] : f \in
           {g \in Perms : \A i \in 1..(n - 1) :
               fee_per_vbyte(es[g[i]]) <= fee_per_vbyte(es[g[i + 1]])}}

\* entries.iter().rev()
Reversed(es) == [i \in 1..Len(es) |-> es[Len(es) + 1 - i]]

\* Tracker::update_fee_histogram on the vector es
update_fee_histogram ==
    /\ ~fees.done
    /\ \E sorted \in SortedByFeeRate(entries) :
          fees' = [done |-> TRUE, histogram |-> Bins(Reversed(sorted), 0, 0)]
    /\ UNCHANGED entries

UpdateFeeHistogram == update_fee_histogram /\ UNCHANGED outsideFees

NextFees == UpdateFeeHistogram

RECURSIVE SumBins(_)
SumBins(h) == IF h = << >> THEN 0 ELSE Head(h)[2] + SumBins(Tail(h))

RECURSIVE SumVsize(_)
SumVsize(es) == IF es = << >> THEN 0 ELSE Head(es).vsize + SumVsize(Tail(es))

\* the total vsize of the entries of es paying at least fee_rate
RECURSIVE VsizePaying(_, _)
VsizePaying(es, fee_rate) ==
    IF es = << >> THEN 0
    ELSE (IF fee_per_vbyte(Head(es)) >= fee_rate THEN Head(es).vsize ELSE 0)
            + VsizePaying(Tail(es), fee_rate)

\* C11: the bins of the histogram sum to the total vsize of the entries, their
\* fee rates are strictly descending, every bin but the last holds more than
\* VSIZE_BIN_WIDTH, no bin is empty, the bins down to a fee rate hold the vsize
\* of the entries paying at least that rate, and the entries of test_fakestore
\* give the bins the test expects.
C11_HistogramBins ==
    fees.done =>
        LET h == fees.histogram
        IN /\ SumBins(h) = SumVsize(entries)
           /\ \A i, j \in 1..Len(h) : i < j => h[i][1] > h[j][1]
           /\ \A i \in 1..(Len(h) - 1) : h[i][2] > VSIZE_BIN_WIDTH
           /\ \A i \in 1..Len(h) :
                 /\ h[i][2] > 0
                 /\ SumBins(SubSeq(h, 1, i)) = VsizePaying(entries, h[i][1])
           /\ entries = TestEntries => h = <<<<3, 150000>>, <<1, 121000>>>>

\* C11 witness: a histogram of a full bin that two entries of one fee rate
\* share and a final partial bin, computed from entries given out of order.
C11_Witness ==
    /\ fees.done
    /\ Len(fees.histogram) = 2
    /\ fees.histogram[1][2] > 2 * VSIZE_BIN_WIDTH
    /\ fees.histogram[2][2] < VSIZE_BIN_WIDTH
    /\ Len(entries) = 3
    /\ fee_per_vbyte(entries[1]) < fee_per_vbyte(entries[2])
    /\ fee_per_vbyte(entries[2]) = fee_per_vbyte(entries[3])

(***************************************************************************)
(* Query: the confirmed chain, the two stores and their scans              *)
(***************************************************************************)
\* the full script hashes clients ask about; their prefixes differ
ScriptHashes == {0, 1}

\* a script hash no output pays to, with the prefix of script hash 1
CollidingScriptHash == 1 + PrefixSpace

\* The chain the node follows.  Block 0 holds the genesis coinbase, block 1 the
\* transaction whose outputs the mempool transactions spend, block 2 a
\* transaction spending output 0 of it and one spending that one's output.
GenesisTxid == NumTxs + 2
SpendTxid == NumTxs + 3
SpendTxid2 == NumTxs + 4

GenesisTx ==
    [txid |-> GenesisTxid,
     input |-> <<[txid |-> NullHash, vout |-> 0]>>,
     output |-> <<[script_hash |-> 0, value |-> 50]>>]

FundingTx ==
    [txid |-> ConfirmedTxid,
     input |-> <<[txid |-> NullHash, vout |-> 0]>>,
     output |-> [i \in 1..(NumTxs + 1) |-> [script_hash |-> (i - 1) % 2, value |-> 10 + i]]]

SpendTx ==
    [txid |-> SpendTxid,
     input |-> <<[txid |-> ConfirmedTxid, vout |-> 0]>>,
     output |-> <<[script_hash |-> 1, value |-> 5]>>]

SpendTx2 ==
    [txid |-> SpendTxid2,
     input |-> <<[txid |-> SpendTxid, vout |-> 0]>>,
     output |-> <<[script_hash |-> 0, value |-> 6]>>]

\* Block(hash, prev_blockhash, txdata): a block, its header reduced to the hash
\* it has and the hash it names as previous
Block(hash, prev_blockhash, txdata) ==
    [hash |-> hash, prev_blockhash |-> prev_blockhash, txdata |-> txdata]

\* Chain[h + 1] is the block at height h; the block at height h has hash h + 1
Chain ==
    <<Block(1, NullHash, <<GenesisTx>>),
      Block(2, 1, <<FundingTx>>),
      Block(3, 2, <<SpendTx, SpendTx2>>)>>

ConfirmedTxs(n) ==
    UNION {{Chain[h].txdata[i] : i \in 1..Len(Chain[h].txdata)} : h \in 1..n}

\* the rows of the transactions of a block, in block order
RECURSIVE TxRows(_, _)
TxRows(txdata, height) ==
    IF txdata = << >> THEN << >>
    ELSE index_transaction(Head(txdata), height) \o TxRows(Tail(txdata), height)

\* the B row of a block: key (code 'B', block hash), value the header
BlockRow(block) ==
    [key |-> <<"B", block.hash>>, value |-> <<block.prev_blockhash>>]

index_block_no_header(block, height) == TxRows(block.txdata, height)

\* index_block(block, height): the rows of its transactions, then its B row
index_block(block, height) ==
    TxRows(block.txdata, height) \o <<BlockRow(block)>>

\* the confirmed store after Index::update wrote the first n blocks (a later
\* put of a key replaces the value)
RECURSIVE WriteFirst(_)
WriteFirst(n) ==
    IF n = 0 THEN << >>
    ELSE PushRows(WriteFirst(n - 1), index_block(Chain[n], n - 1))

\* the rows a store holds: of every key the value written last
RowsOf(m) == {[key |-> k, value |-> m[k][Len(m[k])]] : k \in DOMAIN m}

ConfirmedRows(n) == RowsOf(WriteFirst(n))

\* scan(TxOutRow::filter(script_hash)), scan(TxRow::filter_prefix(prefix)),
\* scan(TxInRow::filter(txid, output_index))
txoutrows_by_script_hash(rows, script_hash) ==
    {r \in rows : r.key[1] = "O" /\ r.key[2] = hash_prefix(script_hash)}

txrows_by_prefix(rows, txid_prefix) ==
    {r \in rows : r.key[1] = "T" /\ hash_prefix(r.key[2]) = txid_prefix}

txids_by_funding_output(rows, prevout) ==
    {r.key[4] : r \in {x \in rows : /\ x.key[1] = "I"
                                    /\ x.key[2] = hash_prefix(prevout[1])
                                    /\ x.key[3] = prevout[2]}}

\* TxQuery::get: the transaction of a txid, from the chain or the mempool
TxById(txid) ==
    IF txid \in Txids THEN TxOf(txid)
    ELSE CHOOSE tx \in ConfirmedTxs(Len(Chain)) : tx.txid = txid

(***************************************************************************)
(* Query::status: funding outputs, spending inputs, history, hash, unspent *)
(***************************************************************************)
\* Tracker::tx_confirmation_state(txid, Some(height)) on the tracker's items
tx_confirmation_state(its, txid, height) ==
    IF height # MEMPOOL_HEIGHT THEN "Confirmed"
    ELSE IF txid \in DOMAIN its
         THEN IF \E i \in 1..Len(its[txid].tx.input) :
                    its[txid].tx.input[i].txid \in DOMAIN its
              THEN "UnconfirmedParent"
              ELSE "InMempool"
         ELSE "Indeterminate"

\* confirmation_state(mempool, txid, height); mempool is TRUE for Some(tracker)
confirmation_state(mempool, txid, height) ==
    IF ~mempool \/ height # MEMPOOL_HEIGHT THEN "Confirmed"
    ELSE tx_confirmation_state(items, txid, height)

\* txn_has_output(txn, n, scripthash_prefix)
txn_has_output(txn, n, scripthash_prefix) ==
    IF Len(txn.output) - 1 < n THEN FALSE
    ELSE hash_prefix(txn.output[n + 1].script_hash) = scripthash_prefix

NoRow == [key |-> << >>, value |-> << >>]

\* lookup_tx_by_outrow: the T row of the transaction of an O row; NoRow for
\* Err("tx not in store")
lookup_tx_by_outrow(rows, txout) ==
    LET txrows == txrows_by_prefix(rows, txout.key[3])
        having == {r \in txrows : txn_has_output(TxById(r.key[2]), txout.key[4],
                                                  txout.key[2])}
    IN IF Cardinality(txrows) = 1 THEN CHOOSE r \in txrows : TRUE
       ELSE IF having = {} THEN NoRow
       ELSE CHOOSE r \in having : \A q \in having : r.key[2] <= q.key[2]

\* txoutrow_to_fundingoutput, where the lookup succeeds
txoutrow_to_fundingoutput(rows, txoutrow, mempool) ==
    LET txrow == lookup_tx_by_outrow(rows, txoutrow)
    IN [txn_id |-> txrow.key[2],
        output_index |-> txoutrow.key[4],
        height |-> txrow.value[1],
        value |-> txoutrow.key[5],
        state |-> confirmation_state(mempool, txrow.key[2], txrow.value[1])]

\* ConfirmedQuery::get_funding / UnconfirmedQuery::get_funding: Err when a
\* lookup fails
FundingFails(rows, scripthash) ==
    \E r \in txoutrows_by_script_hash(rows, scripthash) :
        lookup_tx_by_outrow(rows, r) = NoRow

get_funding(rows, scripthash, mempool) ==
    {txoutrow_to_fundingoutput(rows, r, mempool) :
        r \in txoutrows_by_script_hash(rows, scripthash)}

\* find_spending_input: the set holding the SpendingInput found, or empty
find_spending_input(rows, funding, mempool) ==
    LET prevout == <<funding.txn_id, funding.output_index>>
        spending_txns == txids_by_funding_output(rows, prevout)
        Input(txrow) ==
            [txn_id |-> txrow.key[2],
             height |-> txrow.value[1],
             funding_output |-> prevout,
             value |-> funding.value,
             state |-> confirmation_state(mempool, txrow.key[2], txrow.value[1])]
        single == IF Cardinality(spending_txns) = 1
                  THEN txrows_by_prefix(rows, CHOOSE x \in spending_txns : TRUE)
                  ELSE {}
        loaded == UNION {txrows_by_prefix(rows, x) : x \in spending_txns}
        spenders == {r \in loaded :
                        \E i \in 1..Len(TxById(r.key[2]).input) :
                           LET inp == TxById(r.key[2]).input[i]
                           IN <<inp.txid, inp.vout>> = prevout}
    IN IF Cardinality(single) = 1 THEN {Input(CHOOSE r \in single : TRUE)}
       ELSE IF spenders = {} THEN {}
       ELSE {Input(CHOOSE r \in spenders : \A q \in spenders : r.key[2] <= q.key[2])}

\* ConfirmedQuery::get_spending, UnconfirmedQuery::get_spending
get_spending(rows, fundings, mempool) ==
    UNION {find_spending_input(rows, f, mempool) : f \in fundings}

NoStatus == [arg |-> -1, ok |-> FALSE, indexed |-> 0,
             confirmed |-> [funding |-> {}, spending |-> {}],
             mempool |-> [funding |-> {}, spending |-> {}]]

\* Query::status(scripthash) against the first n blocks and the tracker
StatusOf(scripthash, n) ==
    LET store == ConfirmedRows(n)
        overlay == RowsOf(index)
        confirmed_funding == get_funding(store, scripthash, FALSE)
        confirmed_spending == get_spending(store, confirmed_funding, FALSE)
        unconfirmed_funding == get_funding(overlay, scripthash, TRUE)
        unconfirmed_spending ==
            get_spending(overlay, confirmed_funding \cup unconfirmed_funding, TRUE)
    IN IF FundingFails(store, scripthash) \/ FundingFails(overlay, scripthash)
       THEN [NoStatus EXCEPT !.arg = scripthash, !.indexed = n]
       ELSE [arg |-> scripthash, ok |-> TRUE, indexed |-> n,
             confirmed |-> [funding |-> confirmed_funding,
                            spending |-> confirmed_spending],
             mempool |-> [funding |-> unconfirmed_funding,
                          spending |-> unconfirmed_spending]]

\* the comparator of Status::history adds this to |height| of a mempool entry
MempoolSortBase == 15658734

\* the height Status::history gives an entry of state st (the match of the
\* source has no arm for Indeterminate, which status never produces)
HistoryHeight(st, height) ==
    CASE st = "Confirmed" -> height
      [] st = "InMempool" -> 0
      [] st = "UnconfirmedParent" -> -1

\* txns_map: confirmed funding, mempool funding, confirmed spending, mempool
\* spending are inserted in this order and a later insert replaces an earlier
txns_map(st) ==
    LET lists == <<st.confirmed.funding, st.mempool.funding,
                   st.confirmed.spending, st.mempool.spending>>
        txids == UNION {{x.txn_id : x \in lists[i]} : i \in 1..4}
        LastList(t) == CHOOSE i \in 1..4 :
                          /\ \E x \in lists[i] : x.txn_id = t
                          /\ \A j \in (i + 1)..4 : \A x \in lists[j] : x.txn_id # t
        Of(t) == CHOOSE x \in lists[LastList(t)] : x.txn_id = t
    IN [t \in txids |-> HistoryHeight(Of(t).state, Of(t).height)]

Abs(n) == IF n < 0 THEN -n ELSE n

\* the comparator of items.sort_unstable_by: -1 Less, 0 Equal, 1 Greater
Cmp(x, y) == IF x < y THEN -1 ELSE IF x = y THEN 0 ELSE 1

Compare(a, b) ==
    IF a.height = b.height THEN Cmp(b.tx_hash, a.tx_hash)
    ELSE IF a.height > 0 /\ b.height > 0 THEN Cmp(a.height, b.height)
    ELSE LET a_height == IF a.height <= 0 THEN MempoolSortBase + Abs(a.height)
                         ELSE a.height
             b_height == IF b.height <= 0 THEN MempoolSortBase + Abs(b.height)
                         ELSE b.height
         IN Cmp(a_height, b_height)

\* the arrangements a sort by Compare may leave the items in
RECURSIVE SortedBy(_)
SortedBy(its) ==
    IF its = {} THEN {<< >>}
    ELSE UNION {{<<x>> \o rest : rest \in SortedBy(its \ {x})} :
                   x \in {m \in its : \A y \in its : Compare(m, y) <= 0}}

\* Status::history: the arrangements it may return (the items are collected
\* from a HashMap, in any order, and sorted)
history(st) ==
    LET m == txns_map(st)
    IN SortedBy({[height |-> m[t], tx_hash |-> t] : t \in DOMAIN m})

\* Status::hash of a history: None when it is empty, else the digest of the
\* parts "{tx_hash}:{height}:" in order (the digest is kept as its preimage)
NoneHash == [some |-> FALSE, parts |-> << >>]
HashSomeAlways(txns) == [some |-> TRUE, parts |-> [i \in 1..Len(txns) |-> <<txns[i].tx_hash, txns[i].height>>]]
HashOf(txns) ==
    IF txns = << >> THEN NoneHash
    ELSE [some |-> TRUE,
          parts |-> [i \in 1..Len(txns) |-> <<txns[i].tx_hash, txns[i].height>>]]

hash(st) == {HashOf(txns) : txns \in history(st)}

\* Status::unspent: outputs_map keyed by outpoint (a mempool funding output
\* replaces a confirmed one of the same outpoint), less the outpoints the
\* spending inputs name
OutPointOf(f) == <<f.txn_id, f.output_index>>

unspent_keep_spent(st) == st.confirmed.funding \cup st.mempool.funding
unspent(st) ==
    LET outputs_map ==
            st.mempool.funding
               \cup {f \in st.confirmed.funding :
                        \A g \in st.mempool.funding : OutPointOf(g) # OutPointOf(f)}
        spent == {s.funding_output : s \in st.confirmed.spending \cup st.mempool.spending}
    IN {f \in outputs_map : OutPointOf(f) \notin spent}

\* ---- operations ----
\* Index::update wrote one more block
index_update ==
    /\ indexed < Len(Chain)
    /\ indexed' = indexed + 1
    /\ UNCHANGED <<status, firstuse>>

\* Query::status(scripthash)
query_status(scripthash) ==
    /\ status' = StatusOf(scripthash, indexed)
    /\ UNCHANGED <<indexed, firstuse>>

IndexUpdate == index_update /\ UNCHANGED outsideQuery

QueryStatus == (\E sh \in ScriptHashes : query_status(sh)) /\ UNCHANGED outsideQuery

\* the closure get_tx of scripthash_first_use: the (height, txid) pairs it may
\* return.  The T rows of the O rows' txid prefixes are sorted by height (an
\* unstable sort) and the first whose transaction has an output of the full
\* script hash is returned; (0, Txid::default()) when there is none.
get_tx(rows, scripthash) ==
    LET txs == UNION {txrows_by_prefix(rows, p.key[3]) :
                         p \in txoutrows_by_script_hash(rows, scripthash)}
        funding == {r \in txs :
                       \E i \in 1..Len(TxById(r.key[2]).output) :
                          TxById(r.key[2]).output[i].script_hash = scripthash}
    IN IF funding = {} THEN {<<0, NullHash>>}
       ELSE {<<r.value[1], r.key[2]>> :
                r \in {x \in funding : \A y \in funding : x.value[1] <= y.value[1]}}

\* Query::scripthash_first_use: the blockchain first, the mempool when the
\* height found there is 0
scripthash_first_use(scripthash, n) ==
    UNION {IF tx[1] # 0 THEN {tx} ELSE get_tx(RowsOf(index), scripthash) :
              tx \in get_tx(ConfirmedRows(n), scripthash)}

NoFirstUse == [arg |-> -1, indexed |-> 0, found |-> FALSE, height |-> 0,
               tx_hash |-> NullHash]

\* get_first_use: NotFound when the height is 0; a mempool height is shown as 0
get_first_use(scripthash) ==
    /\ \E fu \in scripthash_first_use(scripthash, indexed) :
          firstuse' = IF fu[1] = 0
                      THEN [NoFirstUse EXCEPT !.arg = scripthash, !.indexed = indexed]
                      ELSE [arg |-> scripthash, indexed |-> indexed, found |-> TRUE,
                            height |-> IF fu[1] = MEMPOOL_HEIGHT THEN 0 ELSE fu[1],
                            tx_hash |-> fu[2]]
    /\ UNCHANGED <<indexed, status>>

GetFirstUse ==
    (\E sh \in ScriptHashes \cup {CollidingScriptHash} : get_first_use(sh))
       /\ UNCHANGED outsideQuery

NextQuery == IndexUpdate \/ QueryStatus \/ GetFirstUse

(***************************************************************************)
(* Query: claims                                                           *)
(***************************************************************************)
\* what the index and the tracker hold when n blocks are indexed: the height
\* of every transaction, the outputs paying a script hash, the spent outpoints
HeightOfConfirmed(txid) ==
    CHOOSE h \in 0..(Len(Chain) - 1) :
        \E i \in 1..Len(Chain[h + 1].txdata) : Chain[h + 1].txdata[i].txid = txid

KnownTxs(n) == ConfirmedTxs(n) \cup {items[t].tx : t \in DOMAIN items}

SpentBy(txs) ==
    UNION {{<<tx.input[i].txid, tx.input[i].vout>> : i \in 1..Len(tx.input)} : tx \in txs}

AllEntries(st) ==
    st.confirmed.funding \cup st.mempool.funding
       \cup st.confirmed.spending \cup st.mempool.spending

\* C12: the status hash is None exactly when the status lists no funding
\* output and no spending input, confirmed or mempool (its history is empty).
C12_HashNoneIffEmpty ==
    status.ok =>
        /\ hash(status) # {}
        /\ \A h \in hash(status) :
              /\ h = NoneHash <=> AllEntries(status) = {}
              /\ h = NoneHash <=> history(status) = {<< >>}
              /\ h.some <=> h.parts # << >>

\* C12 witness: a status with no entry was computed while the tracker held
\* transactions of another script hash, and its hash is None.
C12_Witness ==
    /\ status.ok
    /\ hash(status) = {NoneHash}
    /\ AllEntries(status) = {}
    /\ items # << >>

\* C13 as claimed: the history is one arrangement whatever the scan order,
\* every confirmed entry comes before every mempool entry, the confirmed
\* entries have positive heights in ascending order, height-0 mempool entries
\* come before height -1 ones, and entries of equal height are in reverse
\* txid order.
C13_HistoryOrder ==
    status.ok =>
        /\ Cardinality(history(status)) = 1
        /\ \A h \in history(status) : \A i, j \in 1..Len(h) :
              i < j =>
                 LET a == h[i]
                     b == h[j]
                     conf(x) == x.tx_hash \notin Txids
                 IN /\ ~(~conf(a) /\ conf(b))
                    /\ (conf(a) /\ conf(b)) => (a.height > 0 /\ a.height <= b.height)
                    /\ (~conf(a) /\ ~conf(b)) => a.height >= b.height
                    /\ a.height = b.height => a.tx_hash > b.tx_hash

\* C14 as claimed: a history entry's height is the positive block height of a
\* confirmed transaction, 0 for a tracked mempool transaction none of whose
\* inputs spends a tracked mempool transaction, and -1 for one with such an
\* input.
C14_HistoryHeights ==
    status.ok =>
        LET m == txns_map(status)
        IN \A t \in DOMAIN m :
              IF t \notin Txids
              THEN m[t] > 0 /\ m[t] = HeightOfConfirmed(t)
              ELSE IF \E i \in 1..Len(TxOf(t).input) : TxOf(t).input[i].txid \in DOMAIN items
                   THEN m[t] = -1
                   ELSE m[t] = 0

\* C15: the unspent set is the funding outputs of the status, confirmed and
\* mempool, whose outpoint no spending input of the status names; these are
\* the outputs paying the script hash that no indexed or tracked transaction
\* spends; a spent output is still among the funding outputs, and indexing a
\* block removes no row of the store.
C15_UnspentIsFundingLessSpent ==
    /\ status.ok =>
          LET funding == status.confirmed.funding \cup status.mempool.funding
              spending == status.confirmed.spending \cup status.mempool.spending
              txs == KnownTxs(status.indexed)
          IN /\ unspent(status)
                   = {f \in funding : \A sp \in spending : sp.funding_output # OutPointOf(f)}
             /\ {OutPointOf(f) : f \in unspent(status)}
                   = {o \in SpentBy(txs) \cup {OutPointOf(f) : f \in funding} :
                         /\ \E tx \in txs :
                               /\ tx.txid = o[1]
                               /\ o[2] + 1 \in 1..Len(tx.output)
                               /\ tx.output[o[2] + 1].script_hash = status.arg
                         /\ o \notin SpentBy(txs)}
             /\ \A sp \in spending : \E f \in funding : OutPointOf(f) = sp.funding_output
    /\ \A n \in 0..(Len(Chain) - 1) :
          {r.key : r \in ConfirmedRows(n)} \subseteq {r.key : r \in ConfirmedRows(n + 1)}

\* C15 witness: a status holds a confirmed output spent by a confirmed
\* transaction, one spent by a mempool transaction, and unspent outputs both
\* confirmed and mempool.
C15_Witness ==
    /\ status.ok
    /\ status.confirmed.spending # {}
    /\ status.mempool.spending # {}
    /\ \E f \in unspent(status) : f.state = "Confirmed"
    /\ \E f \in unspent(status) : f.state # "Confirmed"
    /\ \E f \in status.confirmed.funding : f \notin unspent(status)

\* C16 as claimed: first-use returns the confirmed transaction of least height
\* funding the script hash when one is indexed, else a tracked mempool
\* transaction funding it, else fails with NotFound.
C16_FirstUse ==
    firstuse.arg # -1 =>
        LET Funds(tx) == \E i \in 1..Len(tx.output) : tx.output[i].script_hash = firstuse.arg
            conf == {tx \in ConfirmedTxs(firstuse.indexed) : Funds(tx)}
            memp == {items[t].tx : t \in {x \in DOMAIN items : Funds(items[x].tx)}}
        IN IF conf # {}
           THEN /\ firstuse.found
                /\ \E tx \in conf :
                      /\ tx.txid = firstuse.tx_hash
                      /\ firstuse.height = HeightOfConfirmed(tx.txid)
                      /\ \A o \in conf : HeightOfConfirmed(o.txid) >= firstuse.height
           ELSE IF memp # {}
                THEN /\ firstuse.found
                     /\ firstuse.height = 0
                     /\ \E tx \in memp : tx.txid = firstuse.tx_hash
                ELSE ~firstuse.found

(***************************************************************************)
(* RndCache: construction and operations                                   *)
(***************************************************************************)
\* override_entry_overhead; debug_assert!(self.map.is_empty())
override_entry_overhead(size) ==
    /\ Present(map) = {}
    /\ entry_overhead' = size
    /\ call' = [NoCall EXCEPT !.op = "override", !.size = size]
    /\ UNCHANGED <<map, bytes_capacity, bytes_used>>

put(k, v, size) ==
    IF TooBig(size) \/ Unsupported(size)
    THEN /\ call' = [op |-> "dropped", k |-> k, v |-> v, size |-> size, evicted |-> 0,
                     existed |-> map[k] # Absent]
         /\ UNCHANGED <<map, bytes_capacity, bytes_used, entry_overhead>>
    ELSE \E r \in EvictLoop(map, bytes_used, size) :
            IF r.panicked
            THEN /\ map' = r.map
                 /\ bytes_used' = r.used
                 /\ call' = [op |-> "panic", k |-> k, v |-> v, size |-> size,
                             evicted |-> r.evicted, existed |-> map[k] # Absent]
                 /\ UNCHANGED <<bytes_capacity, entry_overhead>>
            ELSE /\ map' = [r.map EXCEPT ![k] = [size |-> size, v |-> v]]
                 /\ bytes_used' = UsedAfterInsert(r.map, r.used, k, size)
                 /\ call' = [op |-> "put", k |-> k, v |-> v, size |-> size,
                             evicted |-> r.evicted, existed |-> map[k] # Absent]
                 /\ UNCHANGED <<bytes_capacity, entry_overhead>>

Put ==
    (\E k \in Keys, v \in Values, size \in Sizes : put(k, v, size))
       /\ UNCHANGED outsideCache

OverrideEntryOverhead ==
    (\E size \in Overheads : override_entry_overhead(size)) /\ UNCHANGED outsideCache

NextCache == Put \/ OverrideEntryOverhead

(***************************************************************************)
(* RndCache: claims                                                        *)
(***************************************************************************)
RECURSIVE SumCharge(_, _)
\* the sum of the charges of the entries m holds for the keys in ks
SumCharge(m, ks) ==
    IF ks = {} THEN 0
    ELSE LET k == CHOOSE x \in ks : TRUE
         IN Charge(m[k].size) + SumCharge(m, ks \ {k})

\* C1: immediately after every put returns, bytes_used <= capacity.
C1_UsedWithinCapacity ==
    call.op \in {"put", "dropped"} => bytes_used <= bytes_capacity

\* C2: a put whose size exceeds the capacity is dropped: the map (every key's
\* size and value, so also the entry of the key itself) and bytes_used are
\* unchanged.
C2_OversizePutDropped ==
    [][\A k \in Keys, v \in Values, size \in Sizes :
          (size > bytes_capacity /\ put(k, v, size))
             => (map' = map /\ bytes_used' = bytes_used)]_vars

\* C2 witness: an oversize put on a key was dropped while the cache holds entries
\* (among them one for the very key of the put, with another value).
C2_Witness ==
    /\ call.op = "dropped"
    /\ call.size > bytes_capacity
    /\ map[call.k] # Absent
    /\ map[call.k].v # call.v
    /\ bytes_used > 0

\* C3 as claimed, read for the puts that are not dropped: a put on a key
\* already in the cache replaces its value, does not grow the entry count, and
\* leaves usage = usage before - the old entry's charge + the new entry's charge.
C3_ReplaceAsClaimed ==
    [][\A k \in Keys, v \in Values, size \in Sizes :
          (/\ map[k] # Absent
           /\ size <= bytes_capacity
           /\ size + entry_overhead <= U32Max
           /\ call'.k = k /\ call'.v = v /\ call'.size = size
           /\ put(k, v, size))
             => /\ map'[k] = [size |-> size, v |-> v]
                /\ Cardinality(Present(map')) <= Cardinality(Present(map))
                /\ bytes_used' = bytes_used - Charge(map[k].size) + Charge(size)]_vars

\* C3 amended: a put that is not dropped, on a key already in the cache,
\* replaces its value and does not grow the entry count; usage afterwards is
\* usage before - the old entry's charge - the charges of the other entries
\* the put evicted + the new entry's charge.
C3_ReplaceAccepted ==
    [][\A k \in Keys, v \in Values, size \in Sizes :
          (/\ map[k] # Absent
           /\ size <= bytes_capacity
           /\ size + entry_overhead <= U32Max
           /\ call'.k = k /\ call'.v = v /\ call'.size = size
           /\ put(k, v, size))
             => /\ map'[k] = [size |-> size, v |-> v]
                /\ Cardinality(Present(map')) <= Cardinality(Present(map))
                /\ bytes_used' = bytes_used
                                   - SumCharge(map, Present(map) \ Present(map'))
                                   - Charge(map[k].size) + Charge(size)]_vars

\* C3 witness: a put on a key the cache held was accepted, evicted an entry
\* to make room, and the key now holds the put's value and size.
C3_Witness ==
    /\ call.op = "put"
    /\ call.existed
    /\ call.evicted > 0
    /\ map[call.k] = [size |-> call.size, v |-> call.v]
    /\ Cardinality(Present(map)) = 1
    /\ bytes_used = Charge(call.size)
    /\ call.size > 0

\* C4: a put whose size does not exceed the capacity evicts entries while the
\* cache would overflow (so none is evicted unless it would, and it does not
\* overflow when put returns) and leaves the new entry retrievable by get.
C4_PutEvictsAndStores ==
    (call.op \in {"put", "dropped"} /\ call.size <= bytes_capacity)
        => /\ get(call.k) = call.v
           /\ bytes_used <= bytes_capacity

(***************************************************************************)
(* Rpc: a connection, its bounded channel, and the notifier                *)
(***************************************************************************)
\* RpcErrorCode::InternalError, RpcErrorCode::Timeout
InternalError == -32603
Timeout == -32005

\* Option<FullHash> of Status::hash: 0 is None, 1 the hash of a history
StatusHashes == {0, 1}

\* no Subscription of the script hash; last_header_entry None
Unsubscribed == -1
NoHeader == -1

\* the script hashes the client of the connection asks about
Subscribable == {0}

\* the method of the model whose handler is given the TimeoutTrigger and asks
\* Query::status (get_balance, get_history, get_mempool and listunspent do the
\* same and leave the subscriptions alone)
StatusMethods == {"blockchain.scripthash.subscribe"}

\* the request lines a client may write; "invalid" is a line that is no JSON
RequestLines ==
    {[method |-> m, sh |-> 0] :
        m \in {"server.ping", "blockchain.utxo.get", "blockchain.headers.subscribe",
               "invalid"}}
    \cup {[method |-> m, sh |-> s] :
            m \in StatusMethods \cup {"blockchain.scripthash.unsubscribe"},
            s \in Subscribable}

\* Message::Request(line), ScriptHashChange(hash), ChainTipChange(tip), Done
Message(type, id, method, a) == [type |-> type, id |-> id, method |-> method, arg |-> a]

NoMessage == [type |-> "none", id |-> 0, method |-> "", arg |-> 0, expired |-> FALSE]

\* Result: Ok, or an error of error_chain: its kind, the code of an RpcError,
\* and the displays of the error and its causes, outermost first
Ok == [ok |-> TRUE, kind |-> "", code |-> 0, chain |-> << >>]

\* display of ErrorKind::RpcError(RpcErrorCode::Timeout, "Timeout")
TimeoutDisplay == "RPC error (-32005 Timeout): Timeout"

\* TimeoutTrigger::check; expired is start.elapsed() >= timeout
check(expired) ==
    IF expired
    THEN [ok |-> FALSE, kind |-> "RpcError", code |-> Timeout, chain |-> <<TimeoutDisplay>>]
    ELSE Ok

\* ResultExt::chain_err(|| msg): an error of kind Msg with the old one as cause
chain_err(res, msg) ==
    IF res.ok THEN res
    ELSE [ok |-> FALSE, kind |-> "Msg", code |-> 0, chain |-> <<msg>> \o res.chain]

\* the messages Query::status chains to an error of its four steps
StatusStages == {"failed to get confirmed funding status",
                 "failed to get confirmed spending status",
                 "failed to get unconfirmed spending status"}

\* the Result of Query::status where the step named by stage checks the deadline
status_result(expired, stage) == chain_err(check(expired), stage)

\* a value written to the stream: a response (with the method and script hash
\* of its request), or a notification of a script hash or of the chain tip
Value(kind, id, code, message, method, sh, h) ==
    [kind |-> kind, id |-> id, code |-> code, message |-> message,
     method |-> method, sh |-> sh, hash |-> h]

\* the reply handle_command builds from the result of the method
Reply(result, id, method, sh) ==
    IF result.ok THEN Value("response", id, 0, << >>, method, sh, 0)
    ELSE IF result.kind = "RpcError"
    THEN Value("response", id, result.code,
               SubSeq(result.chain, 1, IF Len(result.chain) < 2 THEN Len(result.chain) ELSE 2),
               method, sh, 0)
    ELSE Value("response", id, InternalError, <<result.chain[1]>>, method, sh, 0)

\* Connection::handle_command: the reply, and the subscriptions and header
\* entry the method leaves
handle_command(method, sh, id, expired, stage) ==
    LET result ==
            IF method \in StatusMethods THEN status_result(expired, stage)
            ELSE IF method = "blockchain.utxo.get" THEN check(expired)
            ELSE Ok
        removed == [subscriptions EXCEPT ![sh] = Unsubscribed]
    IN [reply |-> Reply(result, id, method, sh),
        subscriptions |->
            IF method = "blockchain.scripthash.unsubscribe" THEN removed
            ELSE IF method = "blockchain.scripthash.subscribe"
            THEN IF result.ok THEN [removed EXCEPT ![sh] = nodestatus[sh]] ELSE removed
            ELSE subscriptions,
        last_header_entry |->
            IF method = "blockchain.headers.subscribe" THEN tip ELSE last_header_entry]

\* new_statushash == old_statushash returns Ok(None)
StatusChangedAlways(new_statushash, old_statushash) == TRUE
StatusChanged(new_statushash, old_statushash) == new_statushash # old_statushash

\* receiver.recv(): the position of the message taken from the channel
RecvNewest(q) == Len(q)
Recv(q) == 1

Without(q, i) == SubSeq(q, 1, i - 1) \o SubSeq(q, i + 1, Len(q))

\* handle_replies returns (Done, or an error): run shuts the stream down and
\* drops the receiver with what it holds
Closed(msg) ==
    /\ conn' = "closed"
    /\ chan' = << >>
    /\ handled' = msg
    /\ UNCHANGED <<out, subscriptions, last_header_entry>>

ChainTipChangedAlways(last_entry, chaintip) == last_entry # NoHeader

\* on_chaintip_change: a notification is due when the connection has a
\* recorded header (it subscribed) and the new tip is another header
ChainTipChanged(last_entry, chaintip) ==
    last_entry # NoHeader /\ last_entry # chaintip

\* one turn of the loop of Connection::handle_replies
handle_replies ==
    /\ conn = "open"
    /\ chan # << >>
    /\ LET i == Recv(chan)
           msg == chan[i]
           seen == [type |-> msg.type, id |-> msg.id, method |-> msg.method,
                    arg |-> msg.arg, expired |-> FALSE]
       IN \/ /\ msg.type = "Request"
             /\ msg.method = "invalid"
             /\ Closed(seen)
          \/ /\ msg.type = "Request"
             /\ msg.method # "invalid"
             /\ \E expired \in IF msg.method \in StatusMethods \cup {"blockchain.utxo.get"}
                               THEN BOOLEAN ELSE {FALSE} :
                \E stage \in IF expired /\ msg.method \in StatusMethods
                             THEN StatusStages
                             ELSE {"failed to get confirmed funding status"} :
                   LET r == handle_command(msg.method, msg.arg, msg.id, expired, stage)
                   IN /\ out' = Append(out, r.reply)
                      /\ subscriptions' = r.subscriptions
                      /\ last_header_entry' = r.last_header_entry
                      /\ handled' = [seen EXCEPT !.expired = expired]
                      /\ chan' = Without(chan, i)
                      /\ UNCHANGED conn
          \/ /\ msg.type = "ScriptHashChange"
             /\ LET old_statushash == subscriptions[msg.arg]
                    new_statushash == nodestatus[msg.arg]
                IN \/ /\ old_statushash = Unsubscribed
                      /\ handled' = seen
                      /\ chan' = Without(chan, i)
                      /\ UNCHANGED <<conn, out, subscriptions, last_header_entry>>
                   \/ /\ old_statushash # Unsubscribed
                      /\ Closed([seen EXCEPT !.expired = TRUE])
                   \/ /\ old_statushash # Unsubscribed
                      /\ handled' = seen
                      /\ chan' = Without(chan, i)
                      /\ IF StatusChanged(new_statushash, old_statushash)
                         THEN /\ out' = Append(out, Value("notification", 0, 0, << >>,
                                                          "blockchain.scripthash.subscribe",
                                                          msg.arg, new_statushash))
                              /\ subscriptions' =
                                    [subscriptions EXCEPT ![msg.arg] = new_statushash]
                         ELSE UNCHANGED <<out, subscriptions>>
                      /\ UNCHANGED <<conn, last_header_entry>>
          \/ /\ msg.type = "ChainTipChange"
             /\ handled' = seen
             /\ chan' = Without(chan, i)
             /\ IF ChainTipChanged(last_header_entry, msg.arg)
                THEN /\ last_header_entry' = msg.arg
                     /\ out' = Append(out, Value("headers", 0, 0, << >>,
                                                 "blockchain.headers.subscribe", 0, msg.arg))
                ELSE UNCHANGED <<out, last_header_entry>>
             /\ UNCHANGED <<conn, subscriptions>>
          \/ /\ msg.type = "Done"
             /\ Closed(seen)
    /\ UNCHANGED <<nread, reader, nodestatus, nchanges, tip, senders>>

\* the first bytes of a TLS handshake, 0x16 0x03 0x01, as a line
SslClientHello == "\\x16\\x03\\x01"

SslLine == [method |-> SslClientHello, sh |-> 0]

IsSslHandshakeNever(line) == FALSE

\* `line.starts_with(&[22, 3, 1])`
IsSslHandshake(line) == line.method = SslClientHello

\* one turn of the loop of Connection::parse_requests over the lines a client
\* may write: a line is read and sent (send blocks while the channel is
\* full), a line that looks like a TLS handshake sends Done and ends the
\* reader with an error, or the stream ends, or the connection is gone
read_lines(lines) ==
    /\ reader = "reading"
    /\ \/ /\ conn = "open"
          /\ nread < MaxRequests
          /\ Len(chan) < BufferSize
          /\ \E line \in lines :
                IF IsSslHandshake(line)
                THEN /\ chan' = Append(chan, Message("Done", 0, "", 0))
                     /\ reader' = "bailed"
                     /\ UNCHANGED nread
                ELSE /\ chan' = Append(chan, Message("Request", nread + 1,
                                                     line.method, line.sh))
                     /\ nread' = nread + 1
                     /\ UNCHANGED reader
       \/ /\ conn = "open"
          /\ Len(chan) < BufferSize
          /\ chan' = Append(chan, Message("Done", 0, "", 0))
          /\ reader' = "done"
          /\ UNCHANGED nread
       \/ /\ conn = "closed"
          /\ reader' = "done"
          /\ UNCHANGED <<chan, nread>>
    /\ UNCHANGED <<conn, out, subscriptions, last_header_entry, nodestatus, nchanges,
                   tip, senders, handled>>

parse_requests == read_lines(RequestLines)

\* SyncSender::try_send on a channel holding q whose receiver is alive or not
try_send(q, alive) ==
    IF ~alive THEN "Disconnected"
    ELSE IF Len(q) >= BufferSize THEN "Full"
    ELSE "Ok"

\* the closure of senders.retain in start_notifier
Retain(result) == result # "Disconnected"

\* start_notifier takes a Notification and offers its message to the connection
notify(msg) ==
    IF senders
    THEN LET result == try_send(chan, conn = "open")
         IN /\ chan' = IF result = "Ok" THEN Append(chan, msg) ELSE chan
            /\ senders' = Retain(result)
    ELSE UNCHANGED <<chan, senders>>

\* the status of a script hash changes (a block or a mempool update) and
\* notify_scripthash_subscriptions sends Notification::ScriptHashChange
notify_scripthash_subscriptions ==
    /\ nchanges < MaxChanges
    /\ nchanges' = nchanges + 1
    /\ \E sh \in Subscribable :
          /\ \E h \in StatusHashes : nodestatus' = [nodestatus EXCEPT ![sh] = h]
          /\ notify(Message("ScriptHashChange", 0, "", sh))
    /\ UNCHANGED <<nread, reader, conn, out, subscriptions, last_header_entry, tip,
                   handled>>

\* a new best header and notify_subscriptions_chaintip
notify_subscriptions_chaintip ==
    /\ nchanges < MaxChanges
    /\ nchanges' = nchanges + 1
    /\ tip' = tip + 1
    /\ notify(Message("ChainTipChange", 0, "", tip + 1))
    /\ UNCHANGED <<nread, reader, conn, out, subscriptions, last_header_entry,
                   nodestatus, handled>>

HandleReplies == handle_replies /\ UNCHANGED outsideRpc

ParseRequests == parse_requests /\ UNCHANGED outsideRpc

NotifyScripthashSubscriptions == notify_scripthash_subscriptions /\ UNCHANGED outsideRpc

NotifySubscriptionsChaintip == notify_subscriptions_chaintip /\ UNCHANGED outsideRpc

NextRpc ==
    \/ HandleReplies
    \/ ParseRequests
    \/ NotifyScripthashSubscriptions
    \/ NotifySubscriptionsChaintip

(***************************************************************************)
(* Rpc: shutdown of the server, the connection writing to a socket         *)
(***************************************************************************)
\* the lines of a client that pings, or opens with a TLS handshake
HandshakeLines == {[method |-> "server.ping", sh |-> 0], SslLine}

\* one turn of handle_replies whose send_values writes to the stream:
\* write_all blocks while the send buffer of the socket is full
handle_replies_blocking ==
    /\ handle_replies
    /\ Len(out') > Len(out) => sock < SocketBuffer
    /\ sock' = sock + (Len(out') - Len(out))

\* Drop for Rpc sends Notification::Exit, the notifier marks the acceptor as
\* done, the loop of the rpc thread ends
Exit ==
    /\ server = "running"
    /\ server' = "closing"
    /\ UNCHANGED <<rpcVars, sock>>
    /\ UNCHANGED outsideConnection

\* `for sender in senders { let _ = sender.send(Message::Done); }`: send
\* blocks while the channel is full and fails when its receiver is gone
SendDone ==
    /\ server = "closing"
    /\ IF ~senders \/ conn = "closed" THEN UNCHANGED chan
       ELSE /\ Len(chan) < BufferSize
            /\ chan' = Append(chan, Message("Done", 0, "", 0))
    /\ server' = "joining"
    /\ UNCHANGED <<nread, reader, conn, out, subscriptions, last_header_entry,
                   nodestatus, nchanges, tip, senders, handled, sock>>
    /\ UNCHANGED outsideConnection

\* the rpc thread joins the peer thread, which ends when Connection::run has
\* shut the stream down and joined its reader
Join ==
    /\ server = "joining"
    /\ conn = "closed"
    /\ reader # "reading"
    /\ server' = "stopped"
    /\ UNCHANGED <<rpcVars, sock>>
    /\ UNCHANGED outsideConnection

\* the client reads a value from its socket
ClientRead ==
    /\ sock > 0
    /\ sock' = sock - 1
    /\ UNCHANGED <<rpcVars, server>>
    /\ UNCHANGED outsideConnection

HandleRepliesBlocking ==
    /\ handle_replies_blocking
    /\ UNCHANGED server
    /\ UNCHANGED outsideConnection

ReadLines ==
    /\ read_lines(HandshakeLines)
    /\ UNCHANGED shutVars
    /\ UNCHANGED outsideConnection

\* the reader once the stream is shut down
ReaderExit == conn = "closed" /\ ReadLines

\* new tips are notified while the server runs
TipWhileRunning ==
    /\ server = "running"
    /\ notify_subscriptions_chaintip
    /\ UNCHANGED shutVars
    /\ UNCHANGED outsideConnection

NextShutdown ==
    \/ HandleRepliesBlocking
    \/ ReadLines
    \/ TipWhileRunning
    \/ Exit
    \/ SendDone
    \/ Join
    \/ ClientRead

\* the threads of the server run: the handler of the connection, its reader
\* once the stream is shut down, and the rpc thread
FairThreads ==
    /\ WF_vars(HandleRepliesBlocking)
    /\ WF_vars(ReaderExit)
    /\ WF_vars(SendDone)
    /\ WF_vars(Join)

\* a request made of a TLS handshake line is queued or was handled
SslDispatched ==
    \/ \E i \in 1..Len(chan) : chan[i].type = "Request" /\ chan[i].method = SslClientHello
    \/ handled.type = "Request" /\ handled.method = SslClientHello

\* C21: a line that begins with the bytes of a TLS handshake is never sent
\* to the handler as a request; the reader that met it reads no further
\* line; and a connection whose first line it is gets no reply and is closed.
C21_HandshakeRefused ==
    /\ [](~SslDispatched)
    /\ [][reader = "bailed" => reader' = "bailed" /\ nread' = nread]_vars
    /\ []((reader = "bailed" /\ nread = 0) => out = << >>)
    /\ (reader = "bailed" /\ nread = 0) ~> (conn = "closed")

\* C21 witness: the first line of the connection was a TLS handshake, and
\* the connection is closed without a reply.
C21_Witness ==
    /\ reader = "bailed"
    /\ nread = 0
    /\ conn = "closed"
    /\ handled.type = "Done"

\* C22 as stated: once the server shuts down, the connection's handler ends
\* and its socket is closed, the reader ends, and the rpc thread joins the
\* peer thread and stops, whatever the channel holds.
C22_ShutdownCompletes ==
    (server = "closing") ~> (server = "stopped" /\ conn = "closed" /\ reader # "reading")

(***************************************************************************)
(* Rpc: claims                                                             *)
(***************************************************************************)
\* C17: when the deadline of a request is exceeded the client receives an
\* error response with code -32005 and message "Timeout", the connection stays
\* open, and the requests after it are served normally.
C17_TimeoutReply ==
    (handled.type = "Request" /\ handled.method # "invalid") =>
        /\ conn = "open"
        /\ out # << >>
        /\ LET reply == out[Len(out)]
           IN /\ reply.kind = "response"
              /\ reply.id = handled.id
              /\ handled.expired =>
                    (reply.code = Timeout /\ reply.message = <<"Timeout">>)
              /\ ~handled.expired => reply.code = 0

\* the value written last is a notification of script hash sh
NotifiedNow(o, sh) ==
    /\ o # << >>
    /\ o[Len(o)].kind = "notification"
    /\ o[Len(o)].sh = sh

\* positions i < j of o hold notifications of the same subscription of sh with
\* none between them: no notification of sh and no reply to a subscribe or
\* unsubscribe of sh lies between
ConsecutiveNotifications(o, sh, i, j) ==
    /\ i < j
    /\ o[i].kind = "notification" /\ o[i].sh = sh
    /\ o[j].kind = "notification" /\ o[j].sh = sh
    /\ \A k \in (i + 1)..(j - 1) :
          /\ ~(o[k].kind = "notification" /\ o[k].sh = sh)
          /\ ~(/\ o[k].kind = "response"
               /\ o[k].sh = sh
               /\ o[k].method \in {"blockchain.scripthash.subscribe",
                                   "blockchain.scripthash.unsubscribe"})

\* C18: a script-hash notification is written only when the recomputed status
\* hash differs from the one stored for the subscription, the stored one is
\* then the one notified, and two consecutive notifications of the same
\* subscription never carry the same status.
C18_EdgeTriggered ==
    [][\A sh \in Subscribable :
          (Len(out') = Len(out) + 1 /\ NotifiedNow(out', sh)) =>
              /\ subscriptions[sh] # Unsubscribed
              /\ out'[Len(out')].hash = nodestatus[sh]
              /\ out'[Len(out')].hash # subscriptions[sh]
              /\ subscriptions'[sh] = out'[Len(out')].hash
              /\ \A i, j \in 1..Len(out') :
                    ConsecutiveNotifications(out', sh, i, j)
                        => out'[i].hash # out'[j].hash]_vars

\* two notifications of one subscription have been written, one after the other
C18_Witness ==
    \E sh \in Subscribable : \E i, j \in 1..Len(out) :
        ConsecutiveNotifications(out, sh, i, j)

\* C19: when a notification cannot be queued because the channel of a
\* connection is full, the notifier drops the connection's sender.
C19_FullQueueEvicts ==
    [][(/\ nchanges' = nchanges + 1
        /\ senders
        /\ try_send(chan, conn = "open") = "Full") => ~senders']_vars

\* the responses among the values written, in order
Responses(o) == SelectSeq(o, LAMBDA v : v.kind = "response")

\* C20: the responses of a connection are written in the order of its request
\* lines, whatever notifications are queued between the requests.
C20_ResponsesInRequestOrder ==
    \A i \in 1..Len(Responses(out)) : Responses(out)[i].id = i

\* a notification was written between two responses
C20_Witness ==
    \E i, j, k \in 1..Len(out) :
        /\ i < j /\ j < k
        /\ out[i].kind = "response"
        /\ out[j].kind \in {"notification", "headers"}
        /\ out[k].kind = "response"

\* C39: when handle_replies takes a ScriptHashChange and recomputing the
\* status hash of the subscription fails (the deadline of the query passed),
\* the connection stays open with the stored status hashes unchanged, so that
\* later requests and notifications are still processed.
C39_FailedRecomputationKeepsConnection ==
    [][(/\ conn = "open"
        /\ handled'.type = "ScriptHashChange"
        /\ handled'.expired)
          => (conn' = "open" /\ subscriptions' = subscriptions)]_vars

(***************************************************************************)
(* BlockchainRpc: subscriptions of a connection and their limits           *)
(***************************************************************************)
SubscribedHashes == 1..NumScriptHashes

\* the addresses a client may name: every script hash has a short and a long
\* spelling (with and without the cashaddr prefix)
AliasLengths == {MaxAliasBytes - 2, MaxAliasBytes - 1}

Aliases == [sh : SubscribedHashes, len : AliasLengths]

NoAlias == 0

check_subscriptions_lax(num_subscriptions, max_subscriptions) ==
    IF num_subscriptions <= max_subscriptions + 1 THEN "ok" ELSE "limit_subscriptions"

\* ConnectionLimits::check_subscriptions
check_subscriptions(num_subscriptions, max_subscriptions) ==
    IF num_subscriptions <= max_subscriptions THEN "ok" ELSE "limit_subscriptions"

check_alias_usage_lax(bytes, max_alias_bytes) ==
    IF bytes <= max_alias_bytes + 1 THEN "ok" ELSE "limit_alias"

\* ConnectionLimits::check_alias_usage
check_alias_usage(bytes, max_alias_bytes) ==
    IF bytes <= max_alias_bytes THEN "ok" ELSE "limit_alias"

remove_subscription_keeping_bytes(s, used, scripthash) ==
    IF scripthash \in DOMAIN s
    THEN [subs |-> [x \in DOMAIN s \ {scripthash} |-> s[x]],
          alias_bytes_used |-> used,
          removed |-> TRUE]
    ELSE [subs |-> s, alias_bytes_used |-> used, removed |-> FALSE]

\* remove_subscription: the entry is removed and the length of its alias
\* subtracted; the result is [subs, alias_bytes_used, removed]
remove_subscription(s, used, scripthash) ==
    IF scripthash \in DOMAIN s
    THEN [subs |-> [x \in DOMAIN s \ {scripthash} |-> s[x]],
          alias_bytes_used |-> used - s[scripthash],
          removed |-> TRUE]
    ELSE [subs |-> s, alias_bytes_used |-> used, removed |-> FALSE]

get_num_subscriptions(s) == Cardinality(DOMAIN s)

\* what a call leaves in sublast: the call, the subscriptions before it, and
\* its result
Called(op, scripthash, len, result) ==
    [op |-> op, scripthash |-> scripthash, len |-> len, result |-> result,
     subs |-> subs, alias_bytes_used |-> alias_bytes_used]

\* blockchain.scripthash.subscribe; expired: Query::status times out
scripthash_subscribe(scripthash, expired) ==
    LET rm == remove_subscription(subs, alias_bytes_used, scripthash)
        chk == check_subscriptions(get_num_subscriptions(rm.subs) + 1,
                                   climits.max_subscriptions)
        result == IF chk # "ok" THEN chk ELSE IF expired THEN "timeout" ELSE "ok"
    IN /\ subs' = IF result = "ok" THEN (scripthash :> NoAlias) @@ rm.subs ELSE rm.subs
       /\ alias_bytes_used' = rm.alias_bytes_used
       /\ sublast' = Called("scripthash.subscribe", scripthash, NoAlias, result)
       /\ UNCHANGED climits

\* blockchain.address.subscribe
address_subscribe(addr, expired) ==
    LET rm == remove_subscription(subs, alias_bytes_used, addr.sh)
        chk == check_subscriptions(get_num_subscriptions(rm.subs) + 1,
                                   climits.max_subscriptions)
        chk2 == check_alias_usage(rm.alias_bytes_used + addr.len, climits.max_alias_bytes)
        result == IF chk # "ok" THEN chk
                  ELSE IF chk2 # "ok" THEN chk2
                  ELSE IF expired THEN "timeout" ELSE "ok"
    IN /\ subs' = IF result = "ok" THEN (addr.sh :> addr.len) @@ rm.subs ELSE rm.subs
       /\ alias_bytes_used' = IF result = "ok" THEN rm.alias_bytes_used + addr.len
                              ELSE rm.alias_bytes_used
       /\ sublast' = Called("address.subscribe", addr.sh, addr.len, result)
       /\ UNCHANGED climits

\* blockchain.scripthash.unsubscribe and blockchain.address.unsubscribe
unsubscribe(op, scripthash) ==
    LET rm == remove_subscription(subs, alias_bytes_used, scripthash)
    IN /\ subs' = rm.subs
       /\ alias_bytes_used' = rm.alias_bytes_used
       /\ sublast' = Called(op, scripthash, NoAlias, IF rm.removed THEN "true" ELSE "false")
       /\ UNCHANGED climits

ScripthashSubscribe ==
    /\ \E scripthash \in SubscribedHashes, expired \in BOOLEAN :
          scripthash_subscribe(scripthash, expired)
    /\ UNCHANGED outsideSubs

AddressSubscribe ==
    /\ \E addr \in Aliases, expired \in BOOLEAN : address_subscribe(addr, expired)
    /\ UNCHANGED outsideSubs

ScripthashUnsubscribe ==
    /\ \E scripthash \in SubscribedHashes : unsubscribe("scripthash.unsubscribe", scripthash)
    /\ UNCHANGED outsideSubs

AddressUnsubscribe ==
    /\ \E addr \in Aliases : unsubscribe("address.unsubscribe", addr.sh)
    /\ UNCHANGED outsideSubs

NextSubs ==
    \/ ScripthashSubscribe
    \/ AddressSubscribe
    \/ ScripthashUnsubscribe
    \/ AddressUnsubscribe

NoSubCall ==
    [op |-> "none", scripthash |-> 0, len |-> 0, result |-> "none",
     subs |-> << >>, alias_bytes_used |-> 0]

\* the sum of the alias lengths of a subscription table
RECURSIVE AliasBytes(_)
AliasBytes(s) ==
    IF DOMAIN s = {} THEN 0
    ELSE LET x == CHOOSE y \in DOMAIN s : TRUE
         IN s[x] + AliasBytes([y \in DOMAIN s \ {x} |-> s[y]])

\* the last call was a subscribe that, the old entry of the script hash set
\* aside, would have made one subscription too many
WouldExceedSubscriptions ==
    /\ sublast.op \in {"scripthash.subscribe", "address.subscribe"}
    /\ Cardinality(DOMAIN sublast.subs \ {sublast.scripthash}) + 1
          > climits.max_subscriptions

\* C23: the number of subscriptions of a connection never exceeds
\* max_subscriptions, and a subscribe call (by script hash or by address)
\* fails with the subscriptions-limit error exactly when it would exceed it.
C23_SubscriptionsWithinLimit ==
    /\ Cardinality(DOMAIN subs) <= climits.max_subscriptions
    /\ sublast.op \in {"scripthash.subscribe", "address.subscribe"} =>
          (sublast.result = "limit_subscriptions" <=> WouldExceedSubscriptions)

\* C23 witness: a subscribe call failed on the limit while the connection
\* held as many subscriptions as allowed, at least one.
C23_Witness ==
    /\ sublast.result = "limit_subscriptions"
    /\ Cardinality(DOMAIN subs) = climits.max_subscriptions
    /\ climits.max_subscriptions > 0

\* the last call was an address subscribe that, the old entry of the script
\* hash set aside, would have made the alias bytes too many
WouldExceedAliasBytes ==
    /\ sublast.op = "address.subscribe"
    /\ AliasBytes([x \in DOMAIN sublast.subs \ {sublast.scripthash} |-> sublast.subs[x]])
          + sublast.len > climits.max_alias_bytes

SubscribeFailed ==
    /\ sublast.op \in {"scripthash.subscribe", "address.subscribe"}
    /\ sublast.result \in {"limit_subscriptions", "limit_alias", "timeout"}

\* the last call was a subscribe for a script hash that was subscribed
Resubscribed ==
    /\ sublast.op \in {"scripthash.subscribe", "address.subscribe"}
    /\ sublast.scripthash \in DOMAIN sublast.subs

\* C37: a subscribe call that returns an error (a limit exceeded, or the
\* status query failing or timing out) leaves the subscriptions and the alias
\* bytes in use as they were before the call, also when the script hash was
\* subscribed before it.
C37_FailedSubscribeChangesNothing ==
    SubscribeFailed =>
       /\ subs = sublast.subs
       /\ alias_bytes_used = sublast.alias_bytes_used

\* C38: alias_bytes_used is the sum of the alias lengths of the subscriptions
\* held, never negative, and a subscribe call for a script hash that was
\* subscribed does not increase the number of subscriptions.
C38_AliasBytesAndCountOnResubscribe ==
    /\ alias_bytes_used = AliasBytes(subs)
    /\ alias_bytes_used >= 0
    /\ Resubscribed =>
          Cardinality(DOMAIN subs) <= Cardinality(DOMAIN sublast.subs)

\* C38 witness: an address subscribe succeeded for a script hash that was
\* subscribed under an alias of another length, next to another subscription.
C38_Witness ==
    /\ Resubscribed
    /\ sublast.result = "ok"
    /\ sublast.len # NoAlias
    /\ sublast.subs[sublast.scripthash] \notin {NoAlias, sublast.len}
    /\ DOMAIN subs \ {sublast.scripthash} # {}

(***************************************************************************)
(* Index::update: the node's chain, the store, the in-memory header list   *)
(***************************************************************************)
\* The node knows a main chain of MaxBlocks blocks, hashes 1..MaxBlocks, and a
\* branch leaving it after the genesis block.  A block's height is fixed by
\* the chain of previous hashes its header starts.
MainHashes == 1..MaxBlocks

ForkHashes == (MaxBlocks + 2)..(2 * MaxBlocks)

BlockHashes == MainHashes \cup ForkHashes

PrevOf(h) ==
    IF h \in MainHashes THEN h - 1
    ELSE IF h = MaxBlocks + 2 THEN 1
    ELSE h - 1

HeightOf(h) == IF h \in MainHashes THEN h - 1 ELSE h - MaxBlocks - 1

\* the transactions of the node's block h: a coinbase transaction, and one
\* with an input spending it and a second input naming the null hash
CoinbaseOf(h) ==
    [txid |-> 10 * h + 1,
     input |-> <<[txid |-> NullHash, vout |-> 0]>>,
     output |-> <<[script_hash |-> h % 2, value |-> 50]>>]

SpenderOf(h) ==
    [txid |-> 10 * h + 2,
     input |-> <<[txid |-> 10 * h + 1, vout |-> 0], [txid |-> NullHash, vout |-> 1]>>,
     output |-> <<[script_hash |-> 0, value |-> 20], [script_hash |-> 1, value |-> 30]>>]

\* daemon.getblocks: the block of a hash
BlockOf(h) == Block(h, PrevOf(h), <<CoinbaseOf(h), SpenderOf(h)>>)

\* last_indexed_block(blockhash): the L row
last_indexed_block(blockhash) == [key |-> <<"L">>, value |-> <<blockhash>>]

\* the rows Index::update derives from a batch: of each block, in the order
\* of the batch, the rows of index_block and then the L row naming it
RECURSIVE rows_iter(_)
rows_iter(batch) ==
    IF batch = << >> THEN << >>
    ELSE index_block(BlockOf(Head(batch)), HeightOf(Head(batch)))
            \o <<last_indexed_block(Head(batch))>>
            \o rows_iter(Tail(batch))

\* DBStore::write: one WriteBatch, a put per row, applied as a whole
RECURSIVE write(_, _)
write(store, rows) ==
    IF rows = << >> THEN store
    ELSE LET r == Head(rows)
         IN write((r.key :> r.value) @@ store, Tail(rows))

\* the block the L row names, the null hash when the store has no L row
LatestOf(store) == IF <<"L">> \in DOMAIN store THEN store[<<"L">>][1] ELSE NullHash

\* read_indexed_headers: from the block of the L row back along the previous
\* hashes of the B rows to the null hash; a hash without a B row panics.
\* The result is [headers, panicked], the headers by height.
RECURSIVE HeadersBack(_, _)
HeadersBack(store, blockhash) ==
    IF blockhash = NullHash THEN [headers |-> << >>, panicked |-> FALSE]
    ELSE IF <<"B", blockhash>> \notin DOMAIN store
         THEN [headers |-> << >>, panicked |-> TRUE]
    ELSE LET rest == HeadersBack(store, store[<<"B", blockhash>>][1])
         IN [headers |-> Append(rest.headers, blockhash), panicked |-> rest.panicked]

read_indexed_headers(store) == HeadersBack(store, LatestOf(store))

InList(list, h) == \E i \in 1..Len(list) : list[i] = h

\* daemon.get_new_headers(indexed_headers, bestblockhash): the headers from
\* the best block back to the first one the list holds, oldest first
RECURSIVE get_new_headers(_, _)
get_new_headers(indexed_headers, blockhash) ==
    IF blockhash = NullHash \/ InList(indexed_headers, blockhash) THEN << >>
    ELSE Append(get_new_headers(indexed_headers, PrevOf(blockhash)), blockhash)

\* HeaderList::apply(new_headers, tip): the list cut at the height of the
\* first new header, the new headers appended
apply(list, new_headers) ==
    IF new_headers = << >> THEN list
    ELSE SubSeq(list, 1, HeightOf(new_headers[1])) \o new_headers

TipOf(list) == IF list = << >> THEN NullHash ELSE list[Len(list)]

\* the batch the fetcher sends next: the next chunk of batch_size headers,
\* the empty batch after the last chunk
NextBatch(u) ==
    SubSeq(u.new_headers, u.pos + 1,
           IF u.pos + BatchSize < Len(u.new_headers) THEN u.pos + BatchSize
           ELSE Len(u.new_headers))

EndOfStreamAlways(batch) == TRUE

\* `if batch.is_empty() { break; }`
EndOfStream(batch) == batch = << >>

NoUpdate == [pc |-> "idle", tip |-> NullHash, new_headers |-> << >>, pos |-> 0]

Did(op, batch) ==
    [op |-> op, batch |-> batch,
     emitted |-> [i \in 1..Len(batch) |->
                     index_block(BlockOf(batch[i]), HeightOf(batch[i]))]]

\* the node's best chain changes to a block of greater height, on the same
\* branch or on the other one
NodeBest ==
    /\ \E b \in BlockHashes :
          /\ HeightOf(b) > HeightOf(best)
          /\ best' = b
    /\ UNCHANGED <<db, headers, upd, ilast>>
    /\ UNCHANGED outsideIndex

indexed_headers_of_store(list, store) == read_indexed_headers(store).headers

\* `let indexed_headers = self.headers.read().unwrap()`: the list an update
\* starts from is the header list in memory, whatever the store holds
indexed_headers(list, store) == list

\* Index::update up to the start of the fetcher: the tip, the new headers
UpdateBegin ==
    /\ upd.pc = "idle"
    /\ upd' = [pc |-> "indexing", tip |-> best,
               new_headers |-> get_new_headers(indexed_headers(headers, db), best),
               pos |-> 0]
    /\ ilast' = Did("begin", << >>)
    /\ UNCHANGED <<best, db, headers>>
    /\ UNCHANGED outsideIndex

\* reconnect, getbestblockhash or get_new_headers fails: update returns the
\* error before anything is fetched
UpdateConnectErr ==
    /\ upd.pc = "idle"
    /\ ilast' = Did("failed", << >>)
    /\ UNCHANGED <<best, db, headers, upd>>
    /\ UNCHANGED outsideIndex

\* one turn of the loop with a batch of blocks: the rows of the batch are
\* written to the store
UpdateWrite ==
    /\ upd.pc = "indexing"
    /\ ~EndOfStream(NextBatch(upd))
    /\ db' = write(db, rows_iter(NextBatch(upd)))
    /\ upd' = [upd EXCEPT !.pos = @ + Len(NextBatch(upd))]
    /\ ilast' = Did("write", NextBatch(upd))
    /\ UNCHANGED <<best, headers>>
    /\ UNCHANGED outsideIndex

\* one turn of the loop whose batch is the error of daemon.getblocks (the
\* connection to the node is lost): update returns the error
UpdateBatchErr ==
    /\ upd.pc = "indexing"
    /\ upd.pos < Len(upd.new_headers)
    /\ upd' = NoUpdate
    /\ ilast' = Did("failed", << >>)
    /\ UNCHANGED <<best, db, headers>>
    /\ UNCHANGED outsideIndex

\* one turn of the loop whose waiter.poll() finds a signal: update returns
\* the Interrupt error, and the server stops
UpdateInterrupt ==
    /\ upd.pc = "indexing"
    /\ upd' = [NoUpdate EXCEPT !.pc = "stopped"]
    /\ ilast' = Did("interrupted", << >>)
    /\ UNCHANGED <<best, db, headers>>
    /\ UNCHANGED outsideIndex

\* the turn of the loop with the empty batch: the loop ends, the store is
\* flushed, the header list takes the new headers under its write lock
UpdateFinish ==
    /\ upd.pc = "indexing"
    /\ EndOfStream(NextBatch(upd))
    /\ headers' = apply(headers, upd.new_headers)
    /\ upd' = NoUpdate
    /\ ilast' = Did("applied", << >>)
    /\ UNCHANGED <<best, db>>
    /\ UNCHANGED outsideIndex

\* the process ends at any point and starts again: Index::load and
\* Index::reload read the header list from the store
Restart ==
    /\ LET r == read_indexed_headers(db)
       IN /\ headers' = r.headers
          /\ upd' = [NoUpdate EXCEPT !.pc = IF r.panicked THEN "panicked" ELSE "idle"]
    /\ ilast' = Did("load", << >>)
    /\ UNCHANGED <<best, db>>
    /\ UNCHANGED outsideIndex

NextIndex ==
    \/ NodeBest
    \/ UpdateBegin
    \/ UpdateConnectErr
    \/ UpdateWrite
    \/ UpdateBatchErr
    \/ UpdateInterrupt
    \/ UpdateFinish
    \/ Restart

\* C25: when the connection handles a chain tip message, it writes a
\* blockchain.headers.subscribe notification of the new tip exactly when it
\* has a recorded header (it subscribed) and the new tip differs from it, and
\* it then records the new tip; otherwise it writes nothing and the recorded
\* header stays.
C25_HeadersNotifiedOnChange ==
    [][(handled'.type = "ChainTipChange" /\ Len(chan') < Len(chan)) =>
          LET chaintip == handled'.arg
              note == Value("headers", 0, 0, << >>, "blockchain.headers.subscribe",
                            0, chaintip)
          IN IF last_header_entry # NoHeader /\ last_header_entry # chaintip
             THEN out' = Append(out, note) /\ last_header_entry' = chaintip
             ELSE out' = out /\ last_header_entry' = last_header_entry]_vars

\* C25 witness: a headers notification was written, and the connection has
\* just handled a chain tip message naming the header it had recorded
\* already, writing nothing.
C25_Witness ==
    /\ \E k \in 1..Len(out) : out[k].kind = "headers"
    /\ handled.type = "ChainTipChange"
    /\ handled.arg = last_header_entry
    /\ out[Len(out)].kind # "headers"

(***************************************************************************)
(* Claims about the indexer                                                *)
(***************************************************************************)
CountRows(rows, Cond(_)) == Cardinality({j \in 1..Len(rows) : Cond(rows[j])})

\* the rows index_block emitted for a block are those the claim C27 names
RowsAsSpecified(block, height, rows) ==
    /\ rows # << >>
    /\ rows[Len(rows)] = [key |-> <<"B", block.hash>>, value |-> <<block.prev_blockhash>>]
    /\ \A j \in 1..(Len(rows) - 1) : rows[j].key[1] \in {"I", "O", "T"}
    /\ \A k \in 1..Len(block.txdata) :
          LET tx == block.txdata[k]
              spends == {i \in 1..Len(tx.input) : tx.input[i].txid # NullHash}
              IsIn(r) == r.key[1] = "I" /\ r.key[4] = hash_prefix(tx.txid)
              IsOut(r) == r.key[1] = "O" /\ r.key[3] = hash_prefix(tx.txid)
              IsTx(r) == r.key = <<"T", tx.txid>>
          IN /\ CountRows(rows, IsIn) = Cardinality(spends)
             /\ \A i \in spends :
                   \E j \in 1..Len(rows) :
                      rows[j].key = <<"I", hash_prefix(tx.input[i].txid),
                                      tx.input[i].vout, hash_prefix(tx.txid)>>
             /\ CountRows(rows, IsOut) = Len(tx.output)
             /\ \A i \in 1..Len(tx.output) :
                   \E j \in 1..Len(rows) :
                      rows[j].key = <<"O", hash_prefix(tx.output[i].script_hash),
                                      hash_prefix(tx.txid), i - 1, tx.output[i].value>>
             /\ CountRows(rows, IsTx) = 1
             /\ \A j \in 1..Len(rows) : IsTx(rows[j]) => rows[j].value = <<height>>

\* C27: of every block of a batch the indexer writes, index_block emits, per
\* transaction, exactly one I row for each input whose previous txid is not
\* the null hash and none for the others, one O row for each output, and
\* exactly one T row holding the block's height; the B row of the block is
\* the last row, after the rows of all its transactions.
C27_RowsPerTransaction ==
    \A i \in 1..Len(ilast.batch) :
        RowsAsSpecified(BlockOf(ilast.batch[i]), HeightOf(ilast.batch[i]), ilast.emitted[i])

\* C27 witness: a batch of two blocks was written, each with a coinbase
\* transaction and a transaction that has a null input beside a spending one.
C27_Witness ==
    /\ ilast.op = "write"
    /\ Len(ilast.batch) = 2
    /\ \A i \in 1..2 :
          \E k \in 1..Len(BlockOf(ilast.batch[i]).txdata) :
             LET tx == BlockOf(ilast.batch[i]).txdata[k]
             IN /\ \E a \in 1..Len(tx.input) : tx.input[a].txid = NullHash
                /\ \E a \in 1..Len(tx.input) : tx.input[a].txid # NullHash

\* the hashes of a block and of its ancestors back to the genesis block
RECURSIVE Ancestry(_)
Ancestry(h) == IF h = NullHash THEN {} ELSE {h} \cup Ancestry(PrevOf(h))

\* C26: in every state of the store, after any batch commit and also when the
\* update was interrupted or failed later or the process started again, the L
\* row names a block whose B row is in the store, and the B row of every
\* ancestor of it back to the genesis block is in the store and holds that
\* ancestor's header; reading the header list from the store never panics.
C26_LatestHasAncestry ==
    /\ \A h \in Ancestry(LatestOf(db)) :
          /\ <<"B", h>> \in DOMAIN db
          /\ db[<<"B", h>>] = <<PrevOf(h)>>
    /\ ~read_indexed_headers(db).panicked
    /\ read_indexed_headers(db).headers # << >>
          => PrevOf(read_indexed_headers(db).headers[1]) = NullHash
    /\ upd.pc # "panicked"

\* C26 witness: an update was interrupted after a batch was committed: the L
\* row names a block at a height above the genesis block that the header
\* list in memory does not hold.
C26_Witness ==
    /\ ilast.op = "interrupted"
    /\ LatestOf(db) # NullHash
    /\ HeightOf(LatestOf(db)) > 0
    /\ ~InList(headers, LatestOf(db))

\* the rows of every block of the in-memory header list are in the store
HeadersIndexed ==
    \A i \in 1..Len(headers) :
        LET rows == index_block(BlockOf(headers[i]), HeightOf(headers[i]))
        IN \A j \in 1..Len(rows) :
              /\ rows[j].key \in DOMAIN db
              /\ db[rows[j].key] = rows[j].value

\* C30: the header list in memory changes only in the last step of an update,
\* after all its batches were written, or when the list is read from the
\* store at start; at that step the L row of the store names the new tip, and
\* at all times the rows of every block of the list are in the store.
C30_TipNeverAheadOfStore ==
    [][/\ HeadersIndexed'
       /\ headers' # headers =>
             /\ ilast'.op \in {"applied", "load"}
             /\ db' = db
             /\ LatestOf(db) = TipOf(headers')]_vars

\* C30 witness: an update of more than one batch has ended and the header
\* list took its headers.
C30_Witness ==
    /\ ilast.op = "applied"
    /\ Len(headers) > BatchSize

\* a step in which an update returns the error of a batch
BatchAbandoned == upd.pc = "indexing" /\ ilast'.op = "failed"

\* a step in which the update after a failed one begins
NextTickAfterFailure == ilast.op = "failed" /\ ilast'.op = "begin"

Signals == {"SIGINT", "SIGTERM", "SIGUSR1"}

IsInterruptAny(sig) == TRUE

\* `if sig != signal_hook::SIGUSR1 { bail!(ErrorKind::Interrupt(sig)) }`
IsInterrupt(sig) == sig # "SIGUSR1"

\* Waiter::wait(duration) over the signals caught: the oldest one is
\* received, a signal other than SIGUSR1 is the Interrupt error; with no
\* signal for the whole duration the wait times out.  The result is
\* [outcome, ok, rest].
wait(q) ==
    IF q = << >> THEN [outcome |-> "timeout", ok |-> TRUE, rest |-> q]
    ELSE IF IsInterrupt(Head(q))
         THEN [outcome |-> Head(q), ok |-> FALSE, rest |-> Tail(q)]
    ELSE [outcome |-> Head(q), ok |-> TRUE, rest |-> Tail(q)]

\* Waiter::poll: wait(0)
poll(q) == wait(q)

\* what dropping the local `server` does when run_server returns
Dropped(server_option) == IF server_option = "running" THEN "dropped" ELSE server_option

\* a signal is caught by the signal hook
Signal ==
    /\ mainpc # "returned"
    /\ Len(sigq) < MaxSignals
    /\ \E sig \in Signals : sigq' = Append(sigq, sig)
    /\ UNCHANGED <<mainpc, rpcserver, ticks, wlast>>
    /\ UNCHANGED outsideLoop

\* the first part of a turn of the loop: app.update (whose Index::update
\* polls the waiter), query.update_mempool, and the server started or
\* notified; failed: the node gives an error
Tick ==
    /\ mainpc = "update"
    /\ ticks < MaxTicks
    /\ ticks' = ticks + 1
    /\ \E failed \in BOOLEAN :
          LET p == poll(sigq)
          IN /\ sigq' = p.rest
             /\ IF p.ok /\ ~failed
                THEN /\ mainpc' = "wait"
                     /\ rpcserver' = "running"
                ELSE /\ mainpc' = "returned"
                     /\ rpcserver' = Dropped(rpcserver)
    /\ UNCHANGED wlast
    /\ UNCHANGED outsideLoop

\* `if let Err(err) = signal.wait(config.wait_duration) { break; }`, and
\* after a break the return of run_server, which drops the server
Wait ==
    /\ mainpc = "wait"
    /\ LET w == wait(sigq)
       IN /\ sigq' = w.rest
          /\ wlast' = w.outcome
          /\ IF w.ok
             THEN /\ mainpc' = "update"
                  /\ UNCHANGED rpcserver
             ELSE /\ mainpc' = "returned"
                  /\ rpcserver' = Dropped(rpcserver)
    /\ UNCHANGED ticks
    /\ UNCHANGED outsideLoop

NextLoop == Signal \/ Tick \/ Wait

\* C28: a wait of the loop that receives SIGUSR1 ends without timing out
\* and the loop goes on to the next update with the server running; one
\* that receives SIGINT or SIGTERM ends the loop and the server is dropped;
\* one that times out goes on to the next update.
C28_WaitOutcomes ==
    [][mainpc = "wait" /\ mainpc' # "wait" =>
          IF sigq = << >>
          THEN wlast' = "timeout" /\ mainpc' = "update" /\ rpcserver' = "running"
          ELSE IF Head(sigq) = "SIGUSR1"
          THEN wlast' = "SIGUSR1" /\ mainpc' = "update" /\ rpcserver' = "running"
          ELSE /\ Head(sigq) \in {"SIGINT", "SIGTERM"}
               /\ wlast' = Head(sigq)
               /\ mainpc' = "returned"
               /\ rpcserver' = "dropped"]_vars

\* C28 witness: a wait was ended by SIGUSR1, the loop made another turn,
\* and a later wait was ended by SIGTERM: the server is dropped.
C28_Witness ==
    /\ wlast = "SIGTERM"
    /\ ticks > 1
    /\ mainpc = "returned"
    /\ rpcserver = "dropped"

(***************************************************************************)
(* RndCache: the account of bytes_used                                     *)
(***************************************************************************)
RECURSIVE SumSizes(_, _)
\* the sum, over the entries m holds for the keys in ks, of the entry size
\* plus the per-entry overhead
SumSizes(m, ks) ==
    IF ks = {} THEN 0
    ELSE LET k == CHOOSE x \in ks : TRUE
         IN m[k].size + entry_overhead + SumSizes(m, ks \ {k})

\* C34: after any sequence of puts (new keys, replaced keys, evictions,
\* dropped inserts) bytes_used is the sum over the entries stored of entry
\* size plus per-entry overhead: 0 when the cache is empty, never negative,
\* and the eviction loop never runs on an empty cache.
C34_UsedIsSumOfCharges ==
    /\ bytes_used = SumSizes(map, Present(map))
    /\ bytes_used >= 0
    /\ Present(map) = {} => bytes_used = 0
    /\ call.op # "panic"

\* C34 witness: a put evicted an entry and replaced or inserted another, a
\* non-zero overhead charged for it, another entry staying in the cache.
C34_Witness ==
    /\ call.op = "put"
    /\ call.evicted > 0
    /\ entry_overhead > 0
    /\ Cardinality(Present(map)) > 1

(***************************************************************************)
(* Rpc::start: the accept loop, the peer threads and the connection slots  *)
(***************************************************************************)
Peers == 1..NumPeers

NoPeer == [addr |-> NoAddr, pc |-> "none", cause |-> "none", released |-> 0,
           res |-> "none"]

\* why conn.run returns: the client closed the stream, handle_replies failed
\* on a request or on a notification, or Message::Done arrived
ExitCauses == {"eof", "protocol_error", "failed_notification"}

\* inc_connection as the accept loop sees it: one call, the mutex held from
\* its first statement to its return
inc_connection(total, table, addr) ==
    LET p == get_prefix(addr)
        entry == Entry(table, p)
    IN  IF entry[p] >= max_connections_shared_prefix
        THEN [res |-> "err_prefix", total |-> total, table |-> entry]
        ELSE IF ~(total < max_connections_total)
        THEN [res |-> "err_global", total |-> total, table |-> entry]
        ELSE [res |-> "ok", total |-> total + 1,
              table |-> [entry EXCEPT ![p] = (@ + 1) % U32Mod]]

\* dec_connection as a peer thread sees it
dec_connection(total, table, addr) ==
    [res |-> IF total <= 0 THEN "err_zero" ELSE "ok",
     total |-> IF total <= 0 THEN total ELSE total - 1,
     table |-> DecPrefix(table, get_prefix(addr))]

\* match global_limits.inc_connection(..) { Err(e) => { .. continue; } Ok(n) => n }
SpawnedAlways(res) == TRUE
Spawned(res) == res = "ok"

\* while let Some((stream, addr)) = acceptor.receiver().recv().unwrap() { .. }:
\* one turn of the loop, for the stream of a client at addr
Accept(c, addr) ==
    /\ acceptor = "accepting"
    /\ peer[c].pc = "none"
    /\ \A d \in Peers : d < c => peer[d].pc # "none"
    /\ LET inc == inc_connection(total_connections, total_prefixed_connections, addr)
       IN  /\ total_connections' = inc.total
           /\ total_prefixed_connections' = inc.table
           /\ peer' = [peer EXCEPT ![c] =
                          [@ EXCEPT !.addr = addr,
                                    !.pc = IF Spawned(inc.res)
                                           THEN "running" ELSE "rejected"]]
    /\ UNCHANGED acceptor

\* the acceptor yields None: the loop ends and Message::Done is sent to
\* every sender
StopAccepting ==
    /\ acceptor = "accepting"
    /\ acceptor' = "closed"
    /\ UNCHANGED <<peer, total_connections, total_prefixed_connections>>

\* conn.run(receiver) returns; an error of handle_replies is logged in run
PeerExit(c, cause) ==
    /\ peer[c].pc = "running"
    /\ cause \in ExitCauses \/ (cause = "shutdown" /\ acceptor = "closed")
    /\ peer' = [peer EXCEPT ![c] = [@ EXCEPT !.pc = "exited", !.cause = cause]]
    /\ UNCHANGED <<acceptor, total_connections, total_prefixed_connections>>

\* match global_limits.dec_connection(&addr.ip()) { .. }, and the thread ends
PeerRelease(c) ==
    /\ peer[c].pc = "exited"
    /\ LET dec == dec_connection(total_connections, total_prefixed_connections,
                                 peer[c].addr)
       IN  /\ total_connections' = dec.total
           /\ total_prefixed_connections' = dec.table
           /\ peer' = [peer EXCEPT ![c] =
                          [@ EXCEPT !.pc = "done", !.res = dec.res,
                                    !.released = @ + 1]]
    /\ UNCHANGED acceptor

unchangedByPeers ==
    <<max_connections_total, max_connections_shared_prefix, lock, pc, arg, open,
      snap, solo, hist, outsideAccept>>

AcceptPeer ==
    (\E c \in Peers, a \in Addrs : Accept(c, a)) /\ UNCHANGED unchangedByPeers
StopAccept == StopAccepting /\ UNCHANGED unchangedByPeers
PeerExits ==
    (\E c \in Peers, cause \in ExitCauses \cup {"shutdown"} : PeerExit(c, cause))
       /\ UNCHANGED unchangedByPeers
PeerReleases == (\E c \in Peers : PeerRelease(c)) /\ UNCHANGED unchangedByPeers

NextPeers == AcceptPeer \/ StopAccept \/ PeerExits \/ PeerReleases

\* the connections that hold a slot: admitted, and not yet released
Live == {c \in Peers : peer[c].pc \in {"running", "exited"}}

\* C36: a connection that inc_connection admitted is released by one
\* dec_connection, which succeeds, once its peer thread has ended, whatever
\* ended it; a connection that was rejected, or one whose thread still runs,
\* is not released; so the total and the count of every prefix are the
\* numbers of the connections that hold a slot, and are 0 once every
\* connection is closed.
C36_ReleasedExactlyOnce ==
    /\ \A c \in Peers :
          /\ peer[c].pc = "done" => peer[c].released = 1 /\ peer[c].res = "ok"
          /\ peer[c].pc # "done" => peer[c].released = 0
    /\ total_connections = Cardinality(Live)
    /\ \A p \in Prefixes :
          PrefixCount(total_prefixed_connections, p)
             = Cardinality({c \in Live : get_prefix(peer[c].addr) = p})
    /\ Live = {} =>
          /\ total_connections = 0
          /\ \A p \in Prefixes : PrefixCount(total_prefixed_connections, p) = 0

\* C36 witness: the server has shut down and every connection is closed: one
\* was rejected, one ended on a failed notification, one on shutdown.
C36_Witness ==
    /\ acceptor = "closed"
    /\ Live = {}
    /\ \E c \in Peers : peer[c].pc = "rejected"
    /\ \E c \in Peers : peer[c].pc = "done" /\ peer[c].cause = "failed_notification"
    /\ \E c \in Peers : peer[c].pc = "done" /\ peer[c].cause = "shutdown"

(***************************************************************************)
(* MempoolStore under transactions that share keys                         *)
(***************************************************************************)
\* two transactions of the first family, and the one of the second family
\* whose I and O rows have the keys of those of the first
StoreTxids == {1, 2, 1 + PrefixSpace}

\* the orders in which the transactions txids can be gone through
Orders(txids) ==
    {q \in [1..Cardinality(txids) -> txids] : {q[i] : i \in DOMAIN q} = txids}

\* Tracker::add and Tracker::remove of one txid; st is [items, index, panicked]
TrackerAdd(st, t) ==
    [items |-> (t :> ItemOf(t)) @@ st.items,
     index |-> StoreAdd(st.index, TxOf(t)),
     panicked |-> st.panicked]

TrackerRemove(st, t) ==
    IF st.panicked THEN st
    ELSE IF t \notin DOMAIN st.items THEN [st EXCEPT !.panicked = TRUE]
    ELSE LET ix == StoreRemove(st.index, st.items[t].tx)
         IN [items |-> [x \in DOMAIN st.items \ {t} |-> st.items[x]],
             index |-> ix.map,
             panicked |-> ix.panicked]

RECURSIVE AddInOrder(_, _)
AddInOrder(st, q) ==
    IF q = << >> THEN st ELSE AddInOrder(TrackerAdd(st, Head(q)), Tail(q))

RECURSIVE RemoveInOrder(_, _)
RemoveInOrder(st, q) ==
    IF q = << >> THEN st ELSE RemoveInOrder(TrackerRemove(st, Head(q)), Tail(q))

\* ReadStore::get: the top of the stack of the key
MempoolGet(m, key) ==
    IF key \in DOMAIN m /\ m[key] # << >> THEN <<m[key][Len(m[key])]>> ELSE << >>

\* ReadStore::scan: a row of the top of the stack for every key that starts
\* with the prefix (the rows as a set: their order is that of the keys)
MempoolScan(m, prefix) ==
    {[key |-> k, value |-> m[k][Len(m[k])]] :
        k \in {x \in DOMAIN m : /\ Len(x) >= Len(prefix)
                                /\ SubSeq(x, 1, Len(prefix)) = prefix
                                /\ m[x] # << >>}}

\* the prefixes the queries scan by: every beginning of a key
ScanPrefixes(m) == {SubSeq(k, 1, n) : k \in DOMAIN m, n \in 0..2}

NoProbe == [op |-> "none", txids |-> {}, before |-> << >>, added |-> << >>,
            panicked |-> FALSE]

\* transactions not tracked are added in one order and removed in another,
\* as two ticks of Tracker::update do when they arrive and leave again
add_then_remove(txids, qa, qr) ==
    LET st0 == [items |-> items, index |-> index, panicked |-> FALSE]
        st1 == AddInOrder(st0, qa)
        st2 == RemoveInOrder(st1, qr)
    IN /\ txids # {}
       /\ probe' = [op |-> "add_remove", txids |-> txids, before |-> index,
                    added |-> st1.index, panicked |-> st2.panicked]
       /\ items' = st2.items
       /\ index' = st2.index
       /\ UNCHANGED <<histogram, node_mempool, last>>

AddThenRemove ==
    /\ \E txids \in SUBSET (StoreTxids \ DOMAIN items) :
          \E qa \in Orders(txids), qr \in Orders(txids) : add_then_remove(txids, qa, qr)
    /\ UNCHANGED outsideTracker

\* the other steps leave no add and removal to look at
NodeChangeStore ==
    /\ \E s \in SUBSET StoreTxids : s # node_mempool /\ node_mempool' = s
    /\ probe' = NoProbe
    /\ UNCHANGED <<items, index, histogram, last>>
    /\ UNCHANGED outsideTracker

UpdateStore ==
    /\ \E entry_err \in SUBSET StoreTxids, tx_err \in SUBSET StoreTxids :
          update(entry_err, tx_err)
    /\ probe' = NoProbe
    /\ UNCHANGED outsideTracker

UpdateFetchErrStore ==
    /\ update_fetch_err
    /\ probe' = NoProbe
    /\ UNCHANGED outsideTracker

NextStore == NodeChangeStore \/ UpdateStore \/ UpdateFetchErrStore \/ AddThenRemove

\* C32: after transactions were added to the mempool index and the same
\* transactions removed, in whatever order, the index is what it was: the
\* same keys with the same stacks, so get and scan answer as before, also
\* for the keys that were present before the transactions were added; and
\* no removal panicked.
C32_AddThenRemoveRestores ==
    probe.op = "add_remove" =>
       /\ ~probe.panicked
       /\ index = probe.before
       /\ \A k \in DOMAIN probe.added :
             MempoolGet(index, k) = MempoolGet(probe.before, k)
       /\ \A prefix \in ScanPrefixes(probe.added) :
             MempoolScan(index, prefix) = MempoolScan(probe.before, prefix)

\* C32 witness: a transaction was added and removed whose rows have keys the
\* index held before, and others it did not hold.
C32_Witness ==
    /\ probe.op = "add_remove"
    /\ probe.before # << >>
    /\ \E k \in DOMAIN probe.before : Len(probe.added[k]) > Len(probe.before[k])
    /\ DOMAIN probe.added # DOMAIN probe.before
    /\ Cardinality(probe.txids) > 1

\* the index that holds the rows of the tracked transactions and no other
RowsOfItems ==
    AddAll([items |-> << >>, index |-> << >>, panicked |-> FALSE], DOMAIN items).index

\* C33: after any sequence of ticks of Tracker::update, those whose fetches
\* fail included, the mempool index holds the rows of the transactions in
\* items and no other row, no key has an empty stack, and no removal met a
\* missing key or another value than the one it expected.
C33_IndexIsRowsOfItems ==
    /\ index = RowsOfItems
    /\ \A t \in DOMAIN items : items[t] = ItemOf(t)
    /\ \A k \in DOMAIN index : index[k] # << >>
    /\ last.op # "panic"

\* C33 witness: an update in which a fetch failed removed a transaction from
\* the stacks it shared with a transaction that stays tracked.
C33_Witness ==
    /\ last.op = "update"
    /\ last.failed # {}
    /\ \E t \in last.old \ last.new :
          \E u \in DOMAIN items : u % PrefixSpace = t % PrefixSpace

(***************************************************************************)
(* The tracker lock and the header list lock, and what is done under them  *)
(***************************************************************************)
\* the main thread, numbered after the peer threads
Main == NumThreads + 1

\* an RwLock nobody holds
Unlocked == [writer |-> FALSE, readers |-> {}]

\* write() returns when nobody holds the lock, read() when no writer does
CanWrite(l) == ~l.writer /\ l.readers = {}
CanRead(l) == ~l.writer

\* the calls to the node of the main thread, and those of a status query
NodeCalls == {"getbestblockhash", "get_new_headers", "getblocks",
              "getmempooltxids", "getmempoolentry", "get_unconfirmed"}

\* the scans of a status query: of the store, and of the mempool index (where
\* a transaction that is not cached is loaded from the node)
Scans == {"confirmed_funding", "confirmed_spending",
          "unconfirmed_funding", "unconfirmed_spending"}

MainAt(pc1, pc2) ==
    /\ mainthread.pc = pc1
    /\ mainthread' = [mainthread EXCEPT !.pc = pc2]

\* Index::update: daemon.reconnect() and daemon.getbestblockhash()
index_update_begin ==
    /\ MainAt("idle", "getbestblockhash")
    /\ UNCHANGED <<tracker_lock, headers_lock, querythread>>

\* let indexed_headers = self.headers.read().unwrap();
\* daemon.get_new_headers(&indexed_headers, &tip): the node is asked for the
\* headers while the guard lives
index_update_read_headers ==
    /\ CanRead(headers_lock)
    /\ MainAt("getbestblockhash", "get_new_headers")
    /\ headers_lock' = [headers_lock EXCEPT !.readers = @ \cup {Main}]
    /\ UNCHANGED <<tracker_lock, querythread>>

\* the block of new_headers ends and drops the guard; the fetcher thread asks
\* the node for the blocks and the rows are written
index_update_fetch ==
    /\ MainAt("get_new_headers", "getblocks")
    /\ headers_lock' = [headers_lock EXCEPT !.readers = @ \ {Main}]
    /\ UNCHANGED <<tracker_lock, querythread>>

\* get_new_headers fails: `?` drops the guard, the tick ends
index_update_headers_err ==
    /\ MainAt("get_new_headers", "idle")
    /\ headers_lock' = [headers_lock EXCEPT !.readers = @ \ {Main}]
    /\ UNCHANGED <<tracker_lock, querythread>>

\* self.headers.write().unwrap().apply(&new_headers, tip)
index_update_apply ==
    /\ CanWrite(headers_lock)
    /\ MainAt("getblocks", "apply")
    /\ headers_lock' = [headers_lock EXCEPT !.writer = TRUE]
    /\ UNCHANGED <<tracker_lock, querythread>>

\* the statement ends and drops the write guard; Index::update returns
index_update_end ==
    /\ MainAt("apply", "update_mempool")
    /\ headers_lock' = [headers_lock EXCEPT !.writer = FALSE]
    /\ UNCHANGED <<tracker_lock, querythread>>

\* Query::update_mempool: self.tracker.write().unwrap().update(daemon, tx):
\* the guard is a temporary of the statement and lives until update returns;
\* Tracker::update begins with daemon.getmempooltxids()
update_mempool_write ==
    /\ CanWrite(tracker_lock)
    /\ MainAt("update_mempool", "getmempooltxids")
    /\ tracker_lock' = [tracker_lock EXCEPT !.writer = TRUE]
    /\ UNCHANGED <<headers_lock, querythread>>

\* getmempooltxids fails: update returns Err and the guard is dropped
update_mempool_err ==
    /\ MainAt("getmempooltxids", "idle")
    /\ tracker_lock' = [tracker_lock EXCEPT !.writer = FALSE]
    /\ UNCHANGED <<headers_lock, querythread>>

\* new txids are known: n of them are new to the tracker
update_mempool_txids(n) ==
    /\ mainthread.pc = "getmempooltxids"
    /\ mainthread' = [pc |-> IF n = 0 THEN "apply_diff" ELSE "getmempoolentry",
                      todo |-> n]
    /\ UNCHANGED <<tracker_lock, headers_lock, querythread>>

\* daemon.getmempoolentry(txid) of the next new txid
update_mempool_entry ==
    /\ MainAt("getmempoolentry", "get_unconfirmed")
    /\ UNCHANGED <<tracker_lock, headers_lock, querythread>>

\* txquery.get_unconfirmed(txid) and self.add(..), then the next txid
update_mempool_tx ==
    /\ mainthread.pc = "get_unconfirmed"
    /\ mainthread' = [pc |-> IF mainthread.todo = 1
                             THEN "apply_diff" ELSE "getmempoolentry",
                      todo |-> mainthread.todo - 1]
    /\ UNCHANGED <<tracker_lock, headers_lock, querythread>>

\* the removals and update_fee_histogram; update returns, the guard is dropped
update_mempool_end ==
    /\ MainAt("apply_diff", "idle")
    /\ tracker_lock' = [tracker_lock EXCEPT !.writer = FALSE]
    /\ UNCHANGED <<headers_lock, querythread>>

QueryAt(q, pc1, pc2) ==
    /\ querythread[q] = pc1
    /\ querythread' = [querythread EXCEPT ![q] = pc2]

\* Query::status: confirmed.get_funding and confirmed.get_spending scan the
\* store, no lock held
status_begin(q) ==
    /\ QueryAt(q, "idle", "confirmed_funding")
    /\ UNCHANGED <<tracker_lock, headers_lock, mainthread>>

status_confirmed_spending(q) ==
    /\ QueryAt(q, "confirmed_funding", "confirmed_spending")
    /\ UNCHANGED <<tracker_lock, headers_lock, mainthread>>

\* a scan of the store fails (`?`), no lock held
status_confirmed_err(q) ==
    /\ querythread[q] \in {"confirmed_funding", "confirmed_spending"}
    /\ querythread' = [querythread EXCEPT ![q] = "idle"]
    /\ UNCHANGED <<tracker_lock, headers_lock, mainthread>>

\* let tracker = self.tracker.read().unwrap(); unconfirmed.get_funding(&tracker, ..)
status_read_tracker(q) ==
    /\ CanRead(tracker_lock)
    /\ QueryAt(q, "confirmed_spending", "unconfirmed_funding")
    /\ tracker_lock' = [tracker_lock EXCEPT !.readers = @ \cup {q}]
    /\ UNCHANGED <<headers_lock, mainthread>>

\* unconfirmed.get_spending(&tracker, ..)
status_unconfirmed_spending(q) ==
    /\ QueryAt(q, "unconfirmed_funding", "unconfirmed_spending")
    /\ UNCHANGED <<tracker_lock, headers_lock, mainthread>>

\* status returns, Ok or Err: the guard is dropped
status_end(q) ==
    /\ querythread[q] \in {"unconfirmed_funding", "unconfirmed_spending"}
    /\ querythread' = [querythread EXCEPT ![q] = "idle"]
    /\ tracker_lock' = [tracker_lock EXCEPT !.readers = @ \ {q}]
    /\ UNCHANGED <<headers_lock, mainthread>>

IndexUpdateBegin == index_update_begin /\ UNCHANGED outsideLocks
IndexUpdateReadHeaders == index_update_read_headers /\ UNCHANGED outsideLocks
IndexUpdateFetch == index_update_fetch /\ UNCHANGED outsideLocks
IndexUpdateHeadersErr == index_update_headers_err /\ UNCHANGED outsideLocks
IndexUpdateApply == index_update_apply /\ UNCHANGED outsideLocks
IndexUpdateEnd == index_update_end /\ UNCHANGED outsideLocks
UpdateMempoolWrite == update_mempool_write /\ UNCHANGED outsideLocks
UpdateMempoolErr == update_mempool_err /\ UNCHANGED outsideLocks
UpdateMempoolTxids ==
    (\E n \in 0..NumTxs : update_mempool_txids(n)) /\ UNCHANGED outsideLocks
UpdateMempoolEntry == update_mempool_entry /\ UNCHANGED outsideLocks
UpdateMempoolTx == update_mempool_tx /\ UNCHANGED outsideLocks
UpdateMempoolEnd == update_mempool_end /\ UNCHANGED outsideLocks
StatusBegin == (\E q \in Threads : status_begin(q)) /\ UNCHANGED outsideLocks
StatusConfirmedSpending ==
    (\E q \in Threads : status_confirmed_spending(q)) /\ UNCHANGED outsideLocks
StatusConfirmedErr == (\E q \in Threads : status_confirmed_err(q)) /\ UNCHANGED outsideLocks
StatusReadTracker == (\E q \in Threads : status_read_tracker(q)) /\ UNCHANGED outsideLocks
StatusUnconfirmedSpending ==
    (\E q \in Threads : status_unconfirmed_spending(q)) /\ UNCHANGED outsideLocks
StatusEnd == (\E q \in Threads : status_end(q)) /\ UNCHANGED outsideLocks

NextLocks ==
    \/ IndexUpdateBegin \/ IndexUpdateReadHeaders \/ IndexUpdateFetch
    \/ IndexUpdateHeadersErr \/ IndexUpdateApply \/ IndexUpdateEnd
    \/ UpdateMempoolWrite \/ UpdateMempoolErr \/ UpdateMempoolTxids
    \/ UpdateMempoolEntry \/ UpdateMempoolTx \/ UpdateMempoolEnd
    \/ StatusBegin \/ StatusConfirmedSpending \/ StatusConfirmedErr
    \/ StatusReadTracker \/ StatusUnconfirmedSpending \/ StatusEnd

\* the main thread holds the lock l
MainHolds(l) == l.writer \/ Main \in l.readers

\* C31: no call to the node and no scan is made while the tracker lock or the
\* header list lock is held: the main thread is not inside a call to the node
\* while it holds either lock, and no status query is inside a scan while it
\* holds the tracker lock.
C31_NothingSlowUnderLock ==
    /\ (MainHolds(tracker_lock) \/ MainHolds(headers_lock))
          => mainthread.pc \notin NodeCalls
    /\ \A q \in tracker_lock.readers : querythread[q] \notin Scans

(***************************************************************************)
(* Construction, and the specification of each component                   *)
(***************************************************************************)
\* the cache before any call
CacheIdle ==
    /\ map = [k \in Keys |-> Absent]
    /\ bytes_capacity = SmallCapacity
    /\ bytes_used = 0
    /\ entry_overhead = DefaultEntryOverhead
    /\ call = NoCall

\* the limits before any call
LimitsIdle ==
    /\ max_connections_total = 0
    /\ max_connections_shared_prefix = 0
    /\ total_connections = 0
    /\ total_prefixed_connections = << >>
    /\ lock = 0
    /\ pc = [t \in Threads |-> "idle"]
    /\ arg = [t \in Threads |-> NoAddr]
    /\ open = [a \in Addrs |-> 0]
    /\ snap = NoSnap
    /\ solo = FALSE
    /\ hist = << >>

\* the tracker before any update
MempoolIdle ==
    /\ items = << >>
    /\ index = << >>
    /\ histogram = << >>
    /\ node_mempool = {}
    /\ last = NoLast

\* no histogram asked for
FeesIdle ==
    /\ entries = << >>
    /\ fees = NotComputed

\* nothing indexed and nothing asked
QueryIdle ==
    /\ indexed = 0
    /\ status = NoStatus
    /\ firstuse = NoFirstUse

\* no connection accepted
RpcIdle ==
    /\ chan = << >>
    /\ nread = 0
    /\ reader = "done"
    /\ conn = "closed"
    /\ out = << >>
    /\ subscriptions = [sh \in Subscribable |-> Unsubscribed]
    /\ last_header_entry = NoHeader
    /\ nodestatus = [sh \in Subscribable |-> 0]
    /\ nchanges = 0
    /\ tip = 0
    /\ senders = FALSE
    /\ handled = NoMessage

\* nothing indexed, no update running
IndexIdle ==
    /\ best = 1
    /\ db = << >>
    /\ headers = << >>
    /\ upd = NoUpdate
    /\ ilast = Did("none", << >>)

\* a connection without subscriptions and with limits of zero
SubsIdle ==
    /\ subs = << >>
    /\ alias_bytes_used = 0
    /\ climits = [max_subscriptions |-> 0, max_alias_bytes |-> 0]
    /\ sublast = NoSubCall

\* the server runs and nothing is written to the socket
ShutIdle ==
    /\ server = "running"
    /\ sock = 0

\* the loop not entered, no signal caught
LoopIdle ==
    /\ sigq = << >>
    /\ mainpc = "update"
    /\ rpcserver = "none"
    /\ ticks = 0
    /\ wlast = "none"

\* no connection accepted yet
PeersIdle ==
    /\ peer = [c \in Peers |-> NoPeer]
    /\ acceptor = "accepting"

\* nothing added and removed yet
StoreIdle ==
    probe = NoProbe

\* no lock held, every thread outside the functions that take one
LocksIdle ==
    /\ tracker_lock = Unlocked
    /\ headers_lock = Unlocked
    /\ mainthread = [pc |-> "idle", todo |-> 0]
    /\ querythread = [q \in Threads |-> "idle"]

\* every component but c is left as constructed and is not called
IdleExcept(c) ==
    /\ c = "cache" \/ CacheIdle
    /\ c = "limits" \/ LimitsIdle
    /\ c = "mempool" \/ MempoolIdle
    /\ c = "fees" \/ FeesIdle
    /\ c = "query" \/ QueryIdle
    /\ c = "rpc" \/ RpcIdle
    /\ c = "index" \/ IndexIdle
    /\ c = "subs" \/ SubsIdle
    /\ c = "shut" \/ ShutIdle
    /\ c = "loop" \/ LoopIdle
    /\ c = "peers" \/ PeersIdle
    /\ c = "store" \/ StoreIdle
    /\ c = "locks" \/ LocksIdle

\* RndCache::new
InitCache ==
    /\ map = [k \in Keys |-> Absent]
    /\ bytes_capacity \in Capacities
    /\ bytes_used = 0
    /\ entry_overhead = DefaultEntryOverhead
    /\ call = NoCall
    /\ IdleExcept("cache")

\* GlobalLimits::new
InitLimits ==
    /\ max_connections_total \in {AsI32(n) : n \in TotalLimits}
    /\ max_connections_shared_prefix \in PrefixLimits
    /\ total_connections = 0
    /\ total_prefixed_connections = << >>
    /\ lock = 0
    /\ pc = [t \in Threads |-> "idle"]
    /\ arg = [t \in Threads |-> NoAddr]
    /\ open = [a \in Addrs |-> 0]
    /\ snap = NoSnap
    /\ solo = FALSE
    /\ hist = << >>
    /\ IdleExcept("limits")

\* Tracker::new, beside a node whose mempool holds any of the transactions
InitMempool ==
    /\ items = << >>
    /\ index = << >>
    /\ histogram = << >>
    /\ node_mempool \in SUBSET Txids
    /\ last = NoLast
    /\ IdleExcept("mempool")

\* the entries of the tracked items, before the histogram is computed
InitFees ==
    /\ entries \in EntryVecs
    /\ fees = NotComputed
    /\ IdleExcept("fees")

\* Query::new beside a tracker holding any set of the mempool transactions
InitQuery ==
    /\ indexed = 0
    /\ status = NoStatus
    /\ firstuse = NoFirstUse
    /\ \E txids \in SUBSET Txids :
          LET st == AddAll([items |-> << >>, index |-> << >>, panicked |-> FALSE], txids)
          IN /\ items = st.items
             /\ index = st.index
             /\ histogram = electrum_fees(st.items)
             /\ node_mempool = txids
             /\ last = NoLast
    /\ CacheIdle /\ LimitsIdle /\ FeesIdle /\ RpcIdle /\ IndexIdle /\ SubsIdle /\ ShutIdle /\ LoopIdle /\ PeersIdle /\ StoreIdle /\ LocksIdle

\* Rpc::start accepted a connection: Connection::new and its sync_channel,
\* the sender pushed to the notifier's list, both threads running
InitRpc ==
    /\ chan = << >>
    /\ nread = 0
    /\ reader = "reading"
    /\ conn = "open"
    /\ out = << >>
    /\ subscriptions = [sh \in Subscribable |-> Unsubscribed]
    /\ last_header_entry = NoHeader
    /\ nodestatus \in [Subscribable -> StatusHashes]
    /\ nchanges = 0
    /\ tip = 0
    /\ senders = TRUE
    /\ handled = NoMessage
    /\ IdleExcept("rpc")

\* Index::load over an empty store, beside a node whose best block is any
\* block of its chains
InitIndex ==
    /\ best \in BlockHashes
    /\ db = << >>
    /\ headers = << >>
    /\ upd = NoUpdate
    /\ ilast = Did("none", << >>)
    /\ IdleExcept("index")

\* BlockchainRpc::new with the limits of ConnectionLimits::new
InitSubs ==
    /\ subs = << >>
    /\ alias_bytes_used = 0
    /\ climits \in [max_subscriptions : 0..MaxSubscriptions,
                    max_alias_bytes : 0..MaxAliasBytes]
    /\ sublast = NoSubCall
    /\ IdleExcept("subs")

\* run_server at the head of its loop: Waiter::start, server = None
InitLoop ==
    /\ sigq = << >>
    /\ mainpc = "update"
    /\ rpcserver = "none"
    /\ ticks = 0
    /\ wlast = "none"
    /\ IdleExcept("loop")

\* Rpc::start, given the GlobalLimits as constructed
InitPeers ==
    /\ max_connections_total \in {AsI32(n) : n \in TotalLimits}
    /\ max_connections_shared_prefix \in PrefixLimits
    /\ total_connections = 0
    /\ total_prefixed_connections = << >>
    /\ lock = 0
    /\ pc = [t \in Threads |-> "idle"]
    /\ arg = [t \in Threads |-> NoAddr]
    /\ open = [a \in Addrs |-> 0]
    /\ snap = NoSnap
    /\ solo = FALSE
    /\ hist = << >>
    /\ PeersIdle
    /\ CacheIdle /\ MempoolIdle /\ FeesIdle /\ QueryIdle /\ RpcIdle /\ IndexIdle
    /\ SubsIdle /\ ShutIdle /\ LoopIdle /\ StoreIdle /\ LocksIdle

\* Tracker::new, beside a node whose mempool holds transactions that share keys
InitStore ==
    /\ items = << >>
    /\ index = << >>
    /\ histogram = << >>
    /\ node_mempool \in SUBSET StoreTxids
    /\ last = NoLast
    /\ probe = NoProbe
    /\ CacheIdle /\ LimitsIdle /\ FeesIdle /\ QueryIdle /\ RpcIdle /\ IndexIdle
    /\ SubsIdle /\ ShutIdle /\ LoopIdle /\ PeersIdle /\ LocksIdle

\* Query::new and Index::load: the locks as constructed, the threads started
InitLocks ==
    /\ LocksIdle
    /\ IdleExcept("locks")

SpecCache == InitCache /\ [][NextCache]_vars

SpecLimits == InitLimits /\ [][NextLimits]_vars
SpecLimitsAnyCall == InitLimits /\ [][NextLimitsAnyCall]_vars

SpecMempool == InitMempool /\ [][NextMempool]_vars

SpecFees == InitFees /\ [][NextFees]_vars

SpecQuery == InitQuery /\ [][NextQuery]_vars

SpecRpc == InitRpc /\ [][NextRpc]_vars

SpecIndex == InitIndex /\ [][NextIndex]_vars

SpecSubs == InitSubs /\ [][NextSubs]_vars

\* the connection of InitRpc, with the threads of the server running
SpecShutdown == InitRpc /\ [][NextShutdown]_vars /\ FairThreads

SpecLoop == InitLoop /\ [][NextLoop]_vars

SpecPeers == InitPeers /\ [][NextPeers]_vars

SpecStore == InitStore /\ [][NextStore]_vars

SpecLocks == InitLocks /\ [][NextLocks]_vars

====
